---------------------------- MODULE Spec2Model ----------------------------
(***************************************************************************)
(* agentdesk: desktop providers (EC2, GCE, Docker, Kubernetes, QEMU), the  *)
(* instance record store they share, the reconciliation done by refresh()  *)
(* and the SSH tunnel manager of agentdesk/proxy.py.                       *)
(*                                                                         *)
(* The record store is the table v1_desktops (primary key id); the backend *)
(* of each provider is the set of resources that provider's API lists.     *)
(* One caller issues calls one at a time (the program is single-threaded   *)
(* and blocking); a create or start that has reached its readiness wait is *)
(* kept in `call` until the wait ends.  The backends drift out of band at  *)
(* any moment.  The calls go to the provider `active`; ListSpec is the one *)
(* specification in which the program builds providers of other types.     *)
(*                                                                         *)
(* Spec       the providers' calls on the store and the backends           *)
(* LiveSpec   Spec with the scheduling the readiness wait relies on        *)
(* DeleteSpec the calls that make and delete instances                     *)
(* TunnelSpec the tunnel functions on the process table                    *)
(* WaitSpec   the readiness wait of a cloud VM on the process table        *)
(* KeySpec    the VM providers with callers that name key pairs            *)
(* RefreshSpec refresh() of the cloud VM providers                         *)
(* ReconcileSpec refresh() of every provider                               *)
(* ConcurrentSpec two processes creating cloud VMs at the same time        *)
(* ListSpec   list() and get() over a store shared by several providers    *)
(* DataSpec   providers written to V1ProviderData and read back            *)
(* SecretSpec the encryption of private keys and passwords in the store    *)
(***************************************************************************)
EXTENDS Integers, Sequences, FiniteSets, TLC

\* ------------------------------------------------------------------ bounds
MaxIds == 2        \* ids handed out (backend resources and records created)
MaxProcs == 3      \* pids handed out by the process table
MaxChunks == 2     \* chunks (of at most 1024 bytes) a peer writes to a relayed connection

\* ------------------------------------------------------------------ inputs
Names == {"box-a", "box-b"}
NoOwner == "None"                       \* owner_id=None
Owners == {NoOwner, "alice"}
Addrs == {"ip1", "ip2"}
PTypes == {"ec2", "gce", "docker", "kube", "qemu"}

VARIABLES
  desktops,   \* rows of v1_desktops
  keys,       \* rows of ssh_keys
  remote,     \* resources the backends hold
  nextId,     \* next fresh id
  call,       \* the create/start call that is inside its readiness wait
  last,       \* what the last finished call (or backend event) was and returned
  procs,      \* process table: running SSH client processes
  nextPid,    \* next fresh pid
  tun,        \* what the last ensure_ssh_proxy call was and returned
  wait,       \* the _wait_till_ready frame of a cloud VM: its locals and position
  atexit,     \* pids registered with atexit.register(cleanup_proxy, pid)
  active,     \* the provider type the calls go to
  pd,         \* a provider object, its to_data() and what from_data made of it
  ENCRYPTION_KEY, \* os.getenv("ENCRYPTION_KEY")
  key_path,   \* content of ~/.agentsea/keys/agentdesk_encryption_key
  records,    \* the secret columns of the rows of ssh_keys and v1_desktops
  obj,        \* the SSHKeyPair or DesktopInstance object the program holds
  crypt,      \* what the last call that resolved the encryption key did
  keydir,     \* the files of AGENTSEA_KEY_DIR and the setup_ssh_proxy call writing one
  relay,      \* a connection of SSHPortForwarding and the thread that relays it
  self_region \* the region, zone or namespace the provider object is configured for

otherVars == <<keydir, relay, self_region>>
secretVars == <<ENCRYPTION_KEY, key_path, records, obj, crypt>>
providerVars ==
  <<desktops, keys, remote, nextId, call, last, procs, nextPid, tun, wait, atexit,
    active>>
vars == <<providerVars, pd, secretVars, otherVars>>
storeVars == <<desktops, keys, remote, nextId, call, last, active, pd, secretVars, otherVars>>
tunnelVars == <<procs, nextPid, tun, wait, atexit, active, pd, secretVars, otherVars>>

\* ----------------------------------------------------- v1_desktops (store)
\* The row as it would be if the constructor kept its default requires_proxy=True
\* whatever the provider passes.
DesktopRecord_default_proxy(id, name, owner_id, addr, provider, requires_proxy, key_pair_name) ==
  [id |-> id, name |-> name, owner_id |-> owner_id, addr |-> addr,
   status |-> "running", provider |-> provider, reserved_ip |-> FALSE,
   requires_proxy |-> TRUE, key_pair_name |-> key_pair_name]

\* DesktopInstance.__init__ -> to_record: the columns the providers read.
DesktopRecord(id, name, owner_id, addr, provider, requires_proxy, key_pair_name) ==
  [id |-> id, name |-> name, owner_id |-> owner_id, addr |-> addr,
   status |-> "running", provider |-> provider, reserved_ip |-> FALSE,
   requires_proxy |-> requires_proxy, key_pair_name |-> key_pair_name]

\* DesktopInstance.save: db.merge(record) is an upsert on the primary key.
save(db, rec) == {r \in db : r.id # rec.id} \cup {rec}

\* DesktopInstance.remove: deletes the row with this id.
remove(db, rec) == {r \in db : r.id # rec.id}

\* DesktopInstance.get / name_exists: filter_by(name=name, owner_id=owner_id).
\* .first() returns one of the matching rows; the query has no ORDER BY.
get(db, name, owner_id) == {r \in db : r.name = name /\ r.owner_id = owner_id}
name_exists(db, name, owner_id) == get(db, name, owner_id) # {}

\* DesktopInstance.find(): all rows, in an order the query does not fix.
find(db) ==
  {f \in [1..Cardinality(db) -> db] : \A r \in db : \E i \in DOMAIN f : f[i] = r}

\* --------------------------------------------------------------- backends
\* A resource is made where the provider that makes it is configured to work
\* (self.region of EC2, self.zone of GCE, self.namespace of Kubernetes).
RemoteResource(provider, rid, name, owner, addr) ==
  [provider |-> provider, rid |-> rid, name |-> name, owner |-> owner,
   addr |-> addr, status |-> "RUNNING", region |-> self_region]

\* "running" if instance.status == "RUNNING" else "stopped"  (GCEProvider.refresh)
remote_status(status) == IF status = "RUNNING" THEN "running" ELSE "stopped"

OwnerOrLocal(owner_id) == IF owner_id = NoOwner THEN "local" ELSE owner_id

\* EC2Provider._get_instance_by_name: the instances of the provider's region
\* tagged Name=name (and Owner=owner_id when one is given); the caller takes
\* the first listed.
EC2_get_instance_by_name(rem, name, owner_id) ==
  {i \in rem : /\ i.provider = "ec2"
               /\ i.region = self_region
               /\ i.name = name
               /\ (owner_id # NoOwner => i.owner = owner_id)}

\* The resources of one backend that carry this name, where the provider looks
\* (its zone, its namespace).
RemoteByName(rem, provider, name) ==
  {i \in rem : i.provider = provider /\ i.name = name /\ i.region = self_region}

\* containers.list(filters=label): running containers only.
DockerRunning(rem) == {i \in rem : i.provider = "docker" /\ i.status = "RUNNING"}

\* ----------------------------------------------------------------- ssh_keys
NoKeyName == <<"none", 0>>
GeneratedKeyName(id) == <<"generated", id>>   \* f"{name}-{short hash}"

SSHKeyPair(name, owner_id, generated_for) ==
  [name |-> name, owner_id |-> owner_id, generated_for |-> generated_for]

\* A caller's own SSHKeyPair.generate_key(name, owner_id) with no metadata:
\* the key pair is saved untagged.
UserKeyNames == {<<"user", 1>>}
NoName == ""
SSHKeyPair_generate_key(name, owner_id) ==
  /\ call.pc = "idle"
  /\ ~\E k \in keys : k.name = name /\ k.owner_id = owner_id
  /\ keys' = keys \cup {SSHKeyPair(name, owner_id, NoName)}
  /\ last' = [op |-> "generate_key", provider |-> "", name |-> "",
              owner_id |-> owner_id, outcome |-> "ok", backend_called |-> FALSE,
              existed |-> FALSE, force |-> FALSE, remote_failed |-> FALSE, id |-> 0,
              pre |-> {}, pre_remote |-> {}, returned |-> {}]
  /\ UNCHANGED <<desktops, remote, nextId, call>>
  /\ UNCHANGED tunnelVars

\* The loop closing every VM provider's delete: SSHKeyPair.find(owner_id=
\* owner_id or "local"), then key.delete for each key generated for this name.
DeleteGeneratedKeys(ks, name, owner_id) ==
  {k \in ks : ~(k.owner_id = OwnerOrLocal(owner_id) /\ k.generated_for = name)}

\* ------------------------------------------------- what a call leaves behind
\* A finished call: the store, the key store and the backend it leaves, how it
\* ended ("ok" or the error raised) and whether it reached the backend.
Result(db, ks, rem, outcome, backend_called) ==
  [db |-> db, ks |-> ks, rem |-> rem, outcome |-> outcome,
   backend_called |-> backend_called]

\* ---------------------------------------------------------- Provider.delete
\* EC2Provider.delete
EC2Provider_delete(db, ks, rem, name, owner_id) ==
  LET found == EC2_get_instance_by_name(rem, name, owner_id)
      desks == get(db, name, NoOwner)
  IN IF found = {}
     THEN {Result(db, DeleteGeneratedKeys(ks, name, owner_id), rem, "ok", TRUE)}
     ELSE UNION {
       IF desks = {}
       THEN {Result(db, ks, rem \ {instance}, "not_found", TRUE)}
       ELSE {Result(remove(db, desk), DeleteGeneratedKeys(ks, name, owner_id),
                    rem \ {instance}, "ok", TRUE) : desk \in desks}
       : instance \in found}

\* GCEProvider.delete
GCEProvider_delete(db, ks, rem, name, owner_id) ==
  LET desks == get(db, name, owner_id)
      found == RemoteByName(rem, "gce", name)
  IN IF desks = {} THEN {Result(db, ks, rem, "not_found", FALSE)}
     ELSE IF found = {} THEN {Result(db, ks, rem, "backend_error", TRUE)}
     ELSE {Result(remove(db, desktop), DeleteGeneratedKeys(ks, name, owner_id),
                  rem \ found, "ok", TRUE) : desktop \in desks}

\* DockerProvider.delete
DockerProvider_delete(db, ks, rem, name, owner_id) ==
  LET found == RemoteByName(rem, "docker", name)
  IN IF found = {} THEN {Result(db, ks, rem, "backend_error", TRUE)}
     ELSE {Result(db, ks, rem \ found, "ok", TRUE)}

\* KubernetesProvider.delete: the pod desk-{name}; a missing secret, service
\* or network policy is skipped, a missing pod is an error.
KubernetesProvider_delete(db, ks, rem, name, owner_id) ==
  LET found == RemoteByName(rem, "kube", name)
  IN IF found = {} THEN {Result(db, ks, rem, "backend_error", TRUE)}
     ELSE {Result(db, ks, rem \ found, "ok", TRUE)}

\* QemuProvider.delete as it would be without its closing loop over the key
\* pairs: the row goes, the generated key pairs stay.
QemuProvider_delete_keeping_keys(db, ks, rem, name, owner_id) ==
  LET desks == get(db, name, owner_id)
      found == RemoteByName(rem, "qemu", name)
  IN IF desks = {} THEN {Result(db, ks, rem, "not_found", FALSE)}
     ELSE {Result(remove(db, desktop), ks,
                  r, "ok", TRUE)
           : desktop \in desks,
             r \in IF found = {} THEN {rem} ELSE {rem \ {process} : process \in found}}

\* QemuProvider.delete: terminates the first process whose AGENTDESK
\* environment variable is this name, when there is one.  (DesktopInstance.delete
\* imports QemuProvider from runtime/qemu.py; the provider is in vm/qemu.py.)
QemuProvider_delete(db, ks, rem, name, owner_id) ==
  LET desks == get(db, name, owner_id)
      found == RemoteByName(rem, "qemu", name)
  IN IF desks = {} THEN {Result(db, ks, rem, "not_found", FALSE)}
     ELSE {Result(remove(db, desktop), DeleteGeneratedKeys(ks, name, owner_id),
                  r, "ok", TRUE)
           : desktop \in desks,
             r \in IF found = {} THEN {rem} ELSE {rem \ {process} : process \in found}}

Provider_delete(provider, db, ks, rem, name, owner_id) ==
  CASE provider = "ec2" -> EC2Provider_delete(db, ks, rem, name, owner_id)
    [] provider = "gce" -> GCEProvider_delete(db, ks, rem, name, owner_id)
    [] provider = "docker" -> DockerProvider_delete(db, ks, rem, name, owner_id)
    [] provider = "kube" -> KubernetesProvider_delete(db, ks, rem, name, owner_id)
    [] provider = "qemu" -> QemuProvider_delete(db, ks, rem, name, owner_id)

\* DesktopInstance.delete as it would be were the provider's error re-raised
\* whatever force says.
DesktopInstance_delete_reraising(db, ks, rem, self, force) ==
  {[db |-> IF r.outcome # "ok" THEN r.db ELSE remove(r.db, self),
    ks |-> r.ks, rem |-> r.rem,
    outcome |-> r.outcome,
    backend_called |-> r.backend_called,
    remote_failed |-> r.outcome # "ok"]
   : r \in Provider_delete(self.provider, db, ks, rem, self.name, NoOwner)}

\* DesktopInstance.delete(force): the provider named in the record deletes
\* self.name (no owner is passed); its error is re-raised unless force; then
\* the row with self.id is deleted, an error there being swallowed.
DesktopInstance_delete(db, ks, rem, self, force) ==
  {[db |-> IF r.outcome # "ok" /\ ~force THEN r.db ELSE remove(r.db, self),
    ks |-> r.ks, rem |-> r.rem,
    outcome |-> IF r.outcome # "ok" /\ ~force THEN r.outcome ELSE "ok",
    backend_called |-> r.backend_called,
    remote_failed |-> r.outcome # "ok"]
   : r \in Provider_delete(self.provider, db, ks, rem, self.name, NoOwner)}

\* --------------------------------------------------------- Provider.refresh
\* EC2Provider.refresh: walks DesktopInstance.find(); returns from inside the
\* loop after the first removal and after the first address update.
RECURSIVE EC2Provider_refresh_loop(_, _, _, _)
EC2Provider_refresh_loop(vms, db, ks, rem) ==
  IF vms = <<>> THEN {Result(db, ks, rem, "ok", TRUE)}
  ELSE LET vm == Head(vms)
           found == EC2_get_instance_by_name(rem, vm.name, NoOwner)
       IN IF vm.provider # "ec2"
          THEN EC2Provider_refresh_loop(Tail(vms), db, ks, rem)
          ELSE IF found = {}
          THEN {Result(remove(db, vm), ks, rem, "ok", TRUE)}
          ELSE UNION {
            IF ~vm.reserved_ip /\ vm.addr # instance.addr
            THEN {Result(save(db, [vm EXCEPT !.addr = instance.addr]), ks, rem,
                         "ok", TRUE)}
            ELSE EC2Provider_refresh_loop(Tail(vms), db, ks, rem)
            : instance \in found}

EC2Provider_refresh(db, ks, rem) ==
  UNION {EC2Provider_refresh_loop(vms, db, ks, rem) : vms \in find(db)}

\* GCEProvider.refresh: lists the zone's instance names, walks
\* DesktopInstance.find(); both branches of the first gce row end in return.
RECURSIVE GCEProvider_refresh_loop(_, _, _, _)
GCEProvider_refresh_loop(vms, db, ks, rem) ==
  IF vms = <<>> THEN {Result(db, ks, rem, "ok", TRUE)}
  ELSE LET vm == Head(vms)
           found == RemoteByName(rem, "gce", vm.name)
       IN IF vm.provider # "gce"
          THEN GCEProvider_refresh_loop(Tail(vms), db, ks, rem)
          ELSE IF found = {}
          THEN {Result(remove(db, vm), ks, rem, "ok", TRUE)}
          ELSE {IF remote_status(instance.status) # vm.status \/ instance.addr # vm.addr
                THEN Result(save(db, [vm EXCEPT !.status = remote_status(instance.status),
                                                !.addr = instance.addr]),
                            ks, rem, "ok", TRUE)
                ELSE Result(db, ks, rem, "ok", TRUE)
                : instance \in found}

GCEProvider_refresh(db, ks, rem) ==
  UNION {GCEProvider_refresh_loop(vms, db, ks, rem) : vms \in find(db)}

\* db_instances_map = {instance.name: instance for instance in self.list()}:
\* of the rows of this type that share a name, the last one listed is kept.
db_instances_map(vms, provider) ==
  {vms[i] : i \in {j \in DOMAIN vms :
                     /\ vms[j].provider = provider
                     /\ \A k \in DOMAIN vms :
                          (k > j /\ vms[k].provider = provider)
                            => vms[k].name # vms[j].name}}

\* for ... in db_instances_map.items(): instance.delete(force=True)
RECURSIVE delete_each_forced(_, _)
delete_each_forced(instances, results) ==
  IF instances = {} THEN results
  ELSE LET instance == CHOOSE x \in instances : TRUE
       IN delete_each_forced(instances \ {instance},
            UNION {{Result(d.db, d.ks, d.rem, "ok", TRUE)
                    : d \in DesktopInstance_delete(r.db, r.ks, r.rem, instance, TRUE)}
                   : r \in results})

\* DockerProvider.refresh: every docker row whose name is not the name of a
\* running container is deleted with force.
DockerProvider_refresh(db, ks, rem) ==
  UNION {delete_each_forced(
           {instance \in db_instances_map(vms, "docker") :
              \A c \in DockerRunning(rem) : c.name # instance.name},
           {Result(db, ks, rem, "ok", TRUE)})
         : vms \in find(db)}

\* KubernetesProvider.refresh: every kube row with no pod desk-{name} is
\* deleted with force.
KubernetesProvider_refresh(db, ks, rem) ==
  UNION {delete_each_forced(
           {instance \in db_instances_map(vms, "kube") :
              RemoteByName(rem, "kube", instance.name) = {}},
           {Result(db, ks, rem, "ok", TRUE)})
         : vms \in find(db)}

\* QemuProvider.refresh: every qemu row with no process whose AGENTDESK is its
\* name is removed; the loop runs to the end of the list.
QemuProvider_refresh(db, ks, rem) ==
  {Result({desktop \in db :
             ~(desktop.provider = "qemu"
               /\ RemoteByName(rem, "qemu", desktop.name) = {})},
          ks, rem, "ok", FALSE)}

\* A refresh as it would be if it worked towards the backend: every row of
\* the provider's type that has no resource gets one made for it.
Provider_refresh_restoring(provider, db, ks, rem) ==
  {Result(db, ks,
          rem \cup {RemoteResource(provider, d.id, d.name, OwnerOrLocal(d.owner_id),
                                   d.addr)
                    : d \in {q \in db : /\ q.provider = provider
                                        /\ RemoteByName(rem, provider, q.name) = {}}},
          "ok", TRUE)}

Provider_refresh(provider, db, ks, rem) ==
  CASE provider = "ec2" -> EC2Provider_refresh(db, ks, rem)
    [] provider = "gce" -> GCEProvider_refresh(db, ks, rem)
    [] provider = "docker" -> DockerProvider_refresh(db, ks, rem)
    [] provider = "kube" -> KubernetesProvider_refresh(db, ks, rem)
    [] provider = "qemu" -> QemuProvider_refresh(db, ks, rem)

\* ------------------------------------------------------------ call records
NoAddr == "None"                         \* addr=None
NoRecord == DesktopRecord(0, "", NoOwner, NoAddr, "", FALSE, NoKeyName)

\* No call is inside a readiness wait.
NoCall ==
  [op |-> "none", provider |-> "", pc |-> "idle", waits |-> 0,
   rid |-> 0, rec |-> NoRecord]

\* A create or start inside its readiness wait: `rec` is the row it saves
\* once the wait ends, `rid` the backend resource it made or started.
Waiting(op, provider, pc, waits, rid, rec) ==
  [op |-> op, provider |-> provider, pc |-> pc, waits |-> waits,
   rid |-> rid, rec |-> rec]

\* What the last finished call was and how it ended.
NoLast ==
  [op |-> "none", provider |-> "", name |-> "", owner_id |-> NoOwner,
   outcome |-> "", backend_called |-> FALSE, existed |-> FALSE,
   force |-> FALSE, remote_failed |-> FALSE, id |-> 0, pre |-> {},
   pre_remote |-> {}, returned |-> {}]

Finished(op, provider, name, owner_id, outcome, backend_called) ==
  [NoLast EXCEPT !.op = op, !.provider = provider, !.name = name,
                 !.owner_id = owner_id, !.outcome = outcome,
                 !.backend_called = backend_called]

Idle == call.pc = "idle"

\* What a create call did, and whether a row of this name and owner was in the
\* store when it was called.
Created(provider, name, owner_id, outcome, backend_called) ==
  [Finished("create", provider, name, owner_id, outcome, backend_called)
     EXCEPT !.existed = name_exists(desktops, name, owner_id)]

\* --------------------------------------------------------- Provider.create
\* The key pair a VM provider's create uses: a fresh one tagged
\* generated_for=name when none is named, else the caller's, looked up under
\* owner_id or "local".
KeyMissing(ks, ssh_key_pair, owner_id) ==
  /\ ssh_key_pair # NoKeyName
  /\ ~\E k \in ks : k.name = ssh_key_pair /\ k.owner_id = OwnerOrLocal(owner_id)
KeyPairName(ssh_key_pair, id) ==
  IF ssh_key_pair = NoKeyName THEN GeneratedKeyName(id) ELSE ssh_key_pair
KeysAfterCreate(ks, ssh_key_pair, owner_id, name, id) ==
  IF ssh_key_pair = NoKeyName
  THEN ks \cup {SSHKeyPair(GeneratedKeyName(id), OwnerOrLocal(owner_id), name)}
  ELSE ks

\* A call that ends at once: nothing is left waiting.
Return(db, ks, rem, obs) ==
  /\ desktops' = db
  /\ keys' = ks
  /\ remote' = rem
  /\ last' = obs
  /\ call' = NoCall

\* A call that enters its readiness wait.
EnterWait(ks, rem, obs, waiting) ==
  /\ desktops' = desktops
  /\ keys' = ks
  /\ remote' = rem
  /\ last' = obs
  /\ call' = waiting

\* EC2Provider.create, up to the readiness wait.
EC2Provider_create(name, owner_id, ssh_key_pair) ==
  /\ Idle /\ nextId <= MaxIds
  /\ UNCHANGED tunnelVars
  /\ IF name_exists(desktops, name, NoOwner)
     THEN /\ Return(desktops, keys, remote,
                    Created("ec2", name, owner_id, "name_exists", FALSE))
          /\ UNCHANGED nextId
     ELSE IF KeyMissing(keys, ssh_key_pair, owner_id)
     THEN /\ Return(desktops, keys, remote,
                    Created("ec2", name, owner_id, "key_not_found", TRUE))
          /\ UNCHANGED nextId
     ELSE \E public_ip \in Addrs :
            /\ nextId' = nextId + 1
            /\ EnterWait(KeysAfterCreate(keys, ssh_key_pair, owner_id, name, nextId),
                      remote \cup {RemoteResource("ec2", nextId, name,
                                                  OwnerOrLocal(owner_id), public_ip)},
                      Created("ec2", name, owner_id, "waiting", TRUE),
                      Waiting("create", "ec2", "sleep", 1, nextId,
                              DesktopRecord(nextId, name, owner_id, public_ip, "ec2",
                                            TRUE, KeyPairName(ssh_key_pair, nextId))))

\* GCEProvider.create, up to the readiness wait; instance names are unique in
\* a zone, so instance_client.insert fails when the name is taken there.
GCEProvider_create(name, owner_id, ssh_key_pair) ==
  /\ Idle /\ nextId <= MaxIds
  /\ UNCHANGED tunnelVars
  /\ IF name_exists(desktops, name, NoOwner)
     THEN /\ Return(desktops, keys, remote,
                    Created("gce", name, owner_id, "name_exists", FALSE))
          /\ UNCHANGED nextId
     ELSE IF KeyMissing(keys, ssh_key_pair, owner_id)
     THEN /\ Return(desktops, keys, remote,
                    Created("gce", name, owner_id, "key_not_found", TRUE))
          /\ UNCHANGED nextId
     ELSE IF RemoteByName(remote, "gce", name) # {}
     THEN /\ Return(desktops,
                    KeysAfterCreate(keys, ssh_key_pair, owner_id, name, nextId),
                    remote,
                    Created("gce", name, owner_id, "backend_error", TRUE))
          /\ nextId' = nextId + 1
     ELSE \E ip_address \in Addrs :
            /\ nextId' = nextId + 1
            /\ EnterWait(KeysAfterCreate(keys, ssh_key_pair, owner_id, name, nextId),
                      remote \cup {RemoteResource("gce", nextId, name,
                                                  OwnerOrLocal(owner_id), ip_address)},
                      Created("gce", name, owner_id, "waiting", TRUE),
                      Waiting("create", "gce", "sleep", 1, nextId,
                              DesktopRecord(nextId, name, owner_id, ip_address, "gce",
                                            TRUE, KeyPairName(ssh_key_pair, nextId))))

\* QemuProvider.create, up to the readiness wait: with log_vm off the wait is
\* entered twice, once before and once after the pid file is read.
QemuProvider_create(name, owner_id, ssh_key_pair) ==
  /\ Idle /\ nextId <= MaxIds
  /\ UNCHANGED tunnelVars
  /\ IF name_exists(desktops, name, NoOwner)
     THEN /\ Return(desktops, keys, remote,
                    Created("qemu", name, owner_id, "name_exists", FALSE))
          /\ UNCHANGED nextId
     ELSE IF KeyMissing(keys, ssh_key_pair, owner_id)
     THEN /\ Return(desktops, keys, remote,
                    Created("qemu", name, owner_id, "key_not_found", FALSE))
          /\ UNCHANGED nextId
     ELSE /\ nextId' = nextId + 1
          /\ EnterWait(KeysAfterCreate(keys, ssh_key_pair, owner_id, name, nextId),
                    remote \cup {RemoteResource("qemu", nextId, name,
                                                OwnerOrLocal(owner_id), "localhost")},
                    Created("qemu", name, owner_id, "waiting", TRUE),
                    Waiting("create", "qemu", "sleep", 2, nextId,
                            DesktopRecord(nextId, name, owner_id, "localhost", "qemu",
                                          FALSE, KeyPairName(ssh_key_pair, nextId))))

\* DockerProvider.create: no look at the store.  The container name is
\* unique on the docker host, so containers.run fails when a container of that
\* name exists.  The two bounded loops (10 reloads, 60 health checks) end in a
\* pass or in their else branch; the health loop's else removes the container.
DockerProvider_create(name, owner_id) ==
  /\ Idle /\ nextId <= MaxIds
  /\ UNCHANGED tunnelVars
  /\ LET container == RemoteResource("docker", nextId, name,
                                     OwnerOrLocal(owner_id), "localhost")
     IN IF RemoteByName(remote, "docker", name) # {}
        THEN /\ Return(desktops, keys, remote,
                       Created("docker", name, owner_id, "backend_error", TRUE))
             /\ UNCHANGED nextId
        ELSE /\ nextId' = nextId + 1
             /\ \/ Return(desktops, keys,
                          remote \cup {[container EXCEPT !.status = "STOPPED"]},
                          Created("docker", name, owner_id, "not_started", TRUE))
                \/ Return(desktops, keys, remote,
                          Created("docker", name, owner_id, "timeout", TRUE))
                \/ Return(save(desktops,
                               DesktopRecord(nextId, name, owner_id, "localhost",
                                             "docker", FALSE, NoKeyName)),
                          keys, remote \cup {container},
                          [Created("docker", name, owner_id, "ok", TRUE)
                             EXCEPT !.id = nextId])

\* KubernetesProvider.create: no look at the store.  The pod desk-{name} is
\* unique in the namespace.  wait_pod_ready and wait_for_http_200 retry up to
\* 200 times each and then raise, leaving the pod in place.  Once both have
\* passed, DesktopInstance(...) is called with ttl= and assigned=, which
\* DesktopInstance.__init__ does not take: the call raises TypeError before
\* any row is saved, and the pod stays.
KubernetesProvider_create(name, owner_id) ==
  /\ Idle /\ nextId <= MaxIds
  /\ UNCHANGED tunnelVars
  /\ LET pod == RemoteResource("kube", nextId, name, OwnerOrLocal(owner_id), NoAddr)
     IN IF RemoteByName(remote, "kube", name) # {}
        THEN /\ Return(desktops, keys, remote,
                       Created("kube", name, owner_id, "backend_error", TRUE))
             /\ UNCHANGED nextId
        ELSE /\ nextId' = nextId + 1
             /\ \/ Return(desktops, keys, remote \cup {pod},
                          Created("kube", name, owner_id, "timeout", TRUE))
                \/ Return(desktops, keys, remote \cup {pod},
                          Created("kube", name, owner_id, "type_error", TRUE))

\* ------------------------------------------------ _wait_till_ready (VM providers)
\* while not ready: time.sleep(3); try: ...GET /health...; except: pass
\* The loop has no attempt counter and no way out but a 200.
InWait == call.pc \in {"sleep", "probe"}

\* time.sleep(3) returns.
WaitSleep ==
  /\ call.pc = "sleep"
  /\ call' = [call EXCEPT !.pc = "probe"]
  /\ UNCHANGED <<desktops, keys, remote, nextId, last>>
  /\ UNCHANGED tunnelVars

\* The health request fails or answers something other than 200.
ProbeNotReady ==
  /\ call.pc = "probe"
  /\ call' = [call EXCEPT !.pc = "sleep"]
  /\ UNCHANGED <<desktops, keys, remote, nextId, last>>
  /\ UNCHANGED tunnelVars

\* The machine the wait is probing is up at the address the wait was given.
Reachable ==
  \E i \in remote : /\ i.rid = call.rid
                    /\ i.status = "RUNNING"
                    /\ i.addr = call.rec.addr

\* The health request answers 200: the loop ends.  QEMU's create then waits a
\* second time; otherwise the caller saves its row and returns.
ProbeReady ==
  /\ call.pc = "probe"
  /\ Reachable
  /\ UNCHANGED <<keys, remote, nextId>>
  /\ UNCHANGED tunnelVars
  /\ IF call.waits > 1
     THEN /\ call' = [call EXCEPT !.pc = "sleep", !.waits = call.waits - 1]
          /\ UNCHANGED <<desktops, last>>
     ELSE /\ desktops' = save(desktops, call.rec)
          /\ last' = [Finished(call.op, call.provider, call.rec.name,
                               call.rec.owner_id, "ok", TRUE)
                        EXCEPT !.id = call.rec.id]
          /\ call' = NoCall

\* KeyboardInterrupt while the caller is blocked in the wait.
Interrupt ==
  /\ InWait
  /\ last' = Finished(call.op, call.provider, call.rec.name, call.rec.owner_id,
                      "interrupted", TRUE)
  /\ call' = NoCall
  /\ UNCHANGED <<desktops, keys, remote, nextId>>
  /\ UNCHANGED tunnelVars

\* ------------------------------------------------------ Provider.start/stop
\* EC2Provider.start, up to the readiness wait.  A stopped instance comes
\* back with whatever public address EC2 hands it.
EC2Provider_start(name, owner_id) ==
  /\ Idle
  /\ UNCHANGED tunnelVars
  /\ UNCHANGED nextId
  /\ LET desks == get(desktops, name, owner_id)
         found == EC2_get_instance_by_name(remote, name, NoOwner)
     IN IF desks = {}
        THEN Return(desktops, keys, remote,
                    Finished("start", "ec2", name, owner_id, "not_found", FALSE))
        ELSE IF found = {}
        THEN Return(desktops, keys, remote,
                    Finished("start", "ec2", name, owner_id, "not_found", TRUE))
        ELSE \E desk \in desks, instance \in found :
             \E public_ip \in IF instance.status = "RUNNING"
                              THEN {instance.addr} ELSE Addrs :
               EnterWait(keys,
                         (remote \ {instance}) \cup
                           {[instance EXCEPT !.status = "RUNNING", !.addr = public_ip]},
                         Finished("start", "ec2", name, owner_id, "waiting", TRUE),
                         Waiting("start", "ec2", "sleep", 1, instance.rid,
                                 [desk EXCEPT !.addr = public_ip, !.status = "running"]))

\* GCEProvider.start, up to the readiness wait.
GCEProvider_start(name, owner_id) ==
  /\ Idle
  /\ UNCHANGED tunnelVars
  /\ UNCHANGED nextId
  /\ LET desks == get(desktops, name, owner_id)
         found == RemoteByName(remote, "gce", name)
     IN IF desks = {}
        THEN Return(desktops, keys, remote,
                    Finished("start", "gce", name, owner_id, "not_found", FALSE))
        ELSE IF found = {}
        THEN Return(desktops, keys, remote,
                    Finished("start", "gce", name, owner_id, "backend_error", TRUE))
        ELSE \E desk \in desks, instance \in found :
             \E ip_address \in IF instance.status = "RUNNING"
                               THEN {instance.addr} ELSE Addrs :
               EnterWait(keys,
                         (remote \ {instance}) \cup
                           {[instance EXCEPT !.status = "RUNNING", !.addr = ip_address]},
                         Finished("start", "gce", name, owner_id, "waiting", TRUE),
                         Waiting("start", "gce", "sleep", 1, instance.rid,
                                 [desk EXCEPT !.addr = ip_address, !.status = "running"]))

\* EC2Provider.stop: the row is marked stopped whether or not an instance of
\* that name was found.
EC2Provider_stop(name, owner_id) ==
  /\ Idle
  /\ UNCHANGED tunnelVars
  /\ UNCHANGED nextId
  /\ LET desks == get(desktops, name, owner_id)
         found == EC2_get_instance_by_name(remote, name, NoOwner)
     IN IF desks = {}
        THEN Return(desktops, keys, remote,
                    Finished("stop", "ec2", name, owner_id, "not_found", FALSE))
        ELSE \E desk \in desks :
             \E rem \in IF found = {} THEN {remote}
                        ELSE {(remote \ {instance}) \cup
                                {[instance EXCEPT !.status = "STOPPED"]}
                              : instance \in found} :
               Return(save(desktops, [desk EXCEPT !.status = "stopped"]), keys, rem,
                      [Finished("stop", "ec2", name, owner_id, "ok", TRUE)
                         EXCEPT !.id = desk.id])

\* GCEProvider.stop
GCEProvider_stop(name, owner_id) ==
  /\ Idle
  /\ UNCHANGED tunnelVars
  /\ UNCHANGED nextId
  /\ LET desks == get(desktops, name, owner_id)
         found == RemoteByName(remote, "gce", name)
     IN IF desks = {}
        THEN Return(desktops, keys, remote,
                    Finished("stop", "gce", name, owner_id, "not_found", FALSE))
        ELSE IF found = {}
        THEN Return(desktops, keys, remote,
                    Finished("stop", "gce", name, owner_id, "backend_error", TRUE))
        ELSE \E desk \in desks :
               Return(save(desktops, [desk EXCEPT !.status = "stopped"]), keys,
                      (remote \ found) \cup
                        {[instance EXCEPT !.status = "STOPPED"] : instance \in found},
                      [Finished("stop", "gce", name, owner_id, "ok", TRUE)
                         EXCEPT !.id = desk.id])

\* DockerProvider.start/stop, KubernetesProvider.start/stop, QemuProvider.start:
\* raise NotImplementedError.
NotImplementedOps ==
  {<<"start", "docker">>, <<"stop", "docker">>, <<"start", "kube">>,
   <<"stop", "kube">>, <<"start", "qemu">>}

Provider_not_implemented(op, provider, name, owner_id) ==
  /\ Idle
  /\ <<op, provider>> \in NotImplementedOps
  /\ UNCHANGED tunnelVars
  /\ UNCHANGED nextId
  /\ Return(desktops, keys, remote,
            Finished(op, provider, name, owner_id, "not_implemented", FALSE))

\* --------------------------------------------------------------- Provider.get
\* The rows provider.get(name, owner_id) can return; none means it returns None.
Provider_get(provider, db, name, owner_id) ==
  IF provider \in {"kube", "qemu"}
  THEN {r \in get(db, name, owner_id) : r.provider = provider}
  ELSE get(db, name, owner_id)

\* The rows provider.list() returns: EC2Provider.list is DesktopInstance.find(),
\* the others keep the rows whose provider.type is their own.
Provider_list(provider, db) ==
  IF provider = "ec2" THEN db ELSE {r \in db : r.provider = provider}

\* A second process of the same installation runs create(name, owner_id) of a
\* cloud VM provider from its first line to its return while this process's
\* create is in its readiness wait: the same pre-check on the store, the same
\* backend call (EC2 takes any Name tag; GCE refuses a name the zone holds),
\* its own wait, which passes, and its own save.
ConcurrentCreate(name, owner_id) ==
  /\ InWait /\ call.op = "create"
  /\ active \in {"ec2", "gce"}
  /\ nextId <= MaxIds
  /\ UNCHANGED tunnelVars
  /\ UNCHANGED call
  /\ IF name_exists(desktops, name, NoOwner)
     THEN /\ last' = Created(active, name, owner_id, "name_exists", FALSE)
          /\ UNCHANGED <<desktops, keys, remote, nextId>>
     ELSE /\ nextId' = nextId + 1
          /\ keys' = KeysAfterCreate(keys, NoKeyName, owner_id, name, nextId)
          /\ IF active = "gce" /\ RemoteByName(remote, "gce", name) # {}
             THEN /\ last' = Created("gce", name, owner_id, "backend_error", TRUE)
                  /\ UNCHANGED <<desktops, remote>>
             ELSE \E addr \in Addrs :
                    /\ remote' = remote \cup
                         {RemoteResource(active, nextId, name, OwnerOrLocal(owner_id),
                                         addr)}
                    /\ desktops' = save(desktops,
                         DesktopRecord(nextId, name, owner_id, addr, active, TRUE,
                                       GeneratedKeyName(nextId)))
                    /\ last' = [Created(active, name, owner_id, "ok", TRUE)
                                 EXCEPT !.id = nextId]

\* EC2Provider.stop and GCEProvider.stop up to their last two lines: the row
\* is loaded and the backend has stopped the machine (EC2 goes on when it
\* finds no instance, GCE raises).  What is left is desk.status = "stopped";
\* desk.save().
StopBegin(name, owner_id) ==
  /\ Idle
  /\ active \in {"ec2", "gce"}
  /\ UNCHANGED tunnelVars
  /\ UNCHANGED nextId
  /\ LET desks == get(desktops, name, owner_id)
         found == IF active = "ec2" THEN EC2_get_instance_by_name(remote, name, NoOwner)
                  ELSE RemoteByName(remote, "gce", name)
     IN IF desks = {}
        THEN Return(desktops, keys, remote,
                    Finished("stop", active, name, owner_id, "not_found", FALSE))
        ELSE IF found = {} /\ active = "gce"
        THEN Return(desktops, keys, remote,
                    Finished("stop", "gce", name, owner_id, "backend_error", TRUE))
        ELSE \E desk \in desks :
             \E rem \in IF found = {} THEN {remote}
                        ELSE IF active = "ec2"
                        THEN {(remote \ {instance}) \cup
                                {[instance EXCEPT !.status = "STOPPED"]}
                              : instance \in found}
                        ELSE {(remote \ found) \cup
                                {[instance EXCEPT !.status = "STOPPED"]
                                 : instance \in found}} :
               EnterWait(keys, rem,
                         Finished("stop", active, name, owner_id, "waiting", TRUE),
                         Waiting("stop", active, "save", 0, 0,
                                 [desk EXCEPT !.status = "stopped"]))

\* desk.status = "stopped"; desk.save() of the row stop loaded.
StopEnd ==
  /\ call.pc = "save"
  /\ desktops' = save(desktops, call.rec)
  /\ last' = [Finished("stop", call.provider, call.rec.name, call.rec.owner_id,
                       "ok", TRUE)
                EXCEPT !.id = call.rec.id]
  /\ call' = NoCall
  /\ UNCHANGED <<keys, remote, nextId>>
  /\ UNCHANGED tunnelVars

\* A second process of the same installation runs delete(name, owner_id) from
\* its first line to its return while this process's start or stop holds the
\* row it loaded; `pre` is the store as the delete found it.
ConcurrentDelete(name, owner_id) ==
  /\ ~Idle
  /\ UNCHANGED tunnelVars
  /\ UNCHANGED <<nextId, call>>
  /\ \E r \in Provider_delete(active, desktops, keys, remote, name, owner_id) :
       /\ desktops' = r.db
       /\ keys' = r.ks
       /\ remote' = r.rem
       /\ last' = [Finished("delete", active, name, owner_id, r.outcome,
                            r.backend_called)
                     EXCEPT !.pre = desktops]

\* ------------------------------------------------------------ delete, refresh
\* provider.delete(name, owner_id)
ProviderDelete(provider, name, owner_id) ==
  /\ Idle
  /\ UNCHANGED tunnelVars
  /\ UNCHANGED nextId
  /\ \E r \in Provider_delete(provider, desktops, keys, remote, name, owner_id) :
       Return(r.db, r.ks, r.rem,
              [Finished("delete", provider, name, owner_id, r.outcome, r.backend_called)
                 EXCEPT !.existed = Provider_get(provider, desktops, name, owner_id) # {}])

\* QemuProvider.stop: self.delete(name, owner_id=owner_id)
QemuProvider_stop(name, owner_id) ==
  /\ Idle
  /\ UNCHANGED tunnelVars
  /\ UNCHANGED nextId
  /\ \E r \in QemuProvider_delete(desktops, keys, remote, name, owner_id) :
       Return(r.db, r.ks, r.rem,
              Finished("stop", "qemu", name, owner_id, r.outcome, r.backend_called))

\* instance.delete(force)
InstanceDelete(self, force) ==
  /\ Idle
  /\ self \in desktops
  /\ UNCHANGED tunnelVars
  /\ UNCHANGED nextId
  /\ \E d \in DesktopInstance_delete(desktops, keys, remote, self, force) :
       Return(d.db, d.ks, d.rem,
              [Finished("instance_delete", self.provider, self.name, self.owner_id,
                        d.outcome, d.backend_called)
                 EXCEPT !.force = force, !.remote_failed = d.remote_failed,
                        !.id = self.id])

\* provider.list()
ProviderList(provider) ==
  /\ Idle
  /\ UNCHANGED tunnelVars
  /\ UNCHANGED nextId
  /\ Return(desktops, keys, remote,
            [Finished("list", provider, "", NoOwner, "ok", FALSE)
               EXCEPT !.returned = Provider_list(provider, desktops)])

\* provider.get(name, owner_id): a row, or None.
ProviderGet(provider, name, owner_id) ==
  /\ Idle
  /\ UNCHANGED tunnelVars
  /\ UNCHANGED nextId
  /\ LET rows == Provider_get(provider, desktops, name, owner_id)
     IN \E returned \in IF rows = {} THEN {{}} ELSE {{r} : r \in rows} :
          Return(desktops, keys, remote,
                 [Finished("get", provider, name, owner_id, "ok", FALSE)
                    EXCEPT !.returned = returned])

\* Another provider object is built in the same program, over the same store.
UseProvider(provider) ==
  /\ Idle
  /\ provider # active
  /\ active' = provider
  /\ UNCHANGED <<desktops, keys, remote, nextId, call, last>>
  /\ UNCHANGED <<procs, nextPid, tun, wait, atexit>>
  /\ UNCHANGED <<pd, secretVars, otherVars>>

\* DesktopInstance.view() of a row that requires a proxy, up to the tunnel:
\* keys = SSHKeyPair.find(name=self.key_pair_name); key_pair = keys[0] (the
\* query fixes no order), whose private key goes to ensure_ssh_proxy.
\* `returned` is the key pair used.  Desktop.__init__ picks its key the same
\* way.  The tunnel process itself is left to the tunnel specifications.
DesktopInstance_view(self) ==
  /\ Idle
  /\ self \in desktops
  /\ self.requires_proxy
  /\ UNCHANGED tunnelVars
  /\ UNCHANGED nextId
  /\ LET found == {k \in keys : k.name = self.key_pair_name}
         obs == [Finished("view", self.provider, self.name, self.owner_id, "ok", FALSE)
                   EXCEPT !.id = self.id]
     IN IF found = {}
        THEN Return(desktops, keys, remote, [obs EXCEPT !.outcome = "no_key"])
        ELSE \E key_pair \in found :
               Return(desktops, keys, remote, [obs EXCEPT !.returned = {key_pair}])

\* Another provider object of the same type is built for another region (zone,
\* namespace), over the same store.
UseRegion(r) ==
  /\ Idle
  /\ r # self_region
  /\ self_region' = r
  /\ UNCHANGED <<providerVars, pd, secretVars, keydir, relay>>

\* provider.refresh()
Refresh(provider) ==
  /\ Idle
  /\ UNCHANGED tunnelVars
  /\ UNCHANGED nextId
  /\ \E r \in Provider_refresh(provider, desktops, keys, remote) :
       Return(r.db, r.ks, r.rem,
              [Finished("refresh", provider, "", NoOwner, r.outcome, r.backend_called)
                 EXCEPT !.pre = desktops, !.pre_remote = remote])

\* EC2Provider.refresh / GCEProvider.refresh when the backend lookup made for
\* the row vm raises (_get_instance_by_name; instance_client.get, which GCE
\* calls for a row whose name is listed).  The loops have no try: the
\* exception leaves refresh.  Every earlier row of the walk was left as it
\* was, since a removal or an update returns from the loop.
RefreshRecordRaises(provider, vm) ==
  /\ Idle
  /\ provider \in {"ec2", "gce"}
  /\ vm \in desktops
  /\ vm.provider = provider
  /\ provider = "gce" => RemoteByName(remote, "gce", vm.name) # {}
  /\ UNCHANGED tunnelVars
  /\ UNCHANGED nextId
  /\ Return(desktops, keys, remote,
            [Finished("refresh", provider, vm.name, vm.owner_id, "record_error", TRUE)
               EXCEPT !.id = vm.id, !.pre = desktops, !.pre_remote = remote])

\* A caller that holds a reserved address for an instance marks its row:
\* desktop.reserved_ip = True; desktop.save().  (No create sets the column:
\* reserve_ip=True reserves the address and builds the row without it.)
DesktopInstance_save_reserved(self) ==
  /\ Idle
  /\ self \in desktops
  /\ ~self.reserved_ip
  /\ UNCHANGED tunnelVars
  /\ UNCHANGED nextId
  /\ Return(save(desktops, [self EXCEPT !.reserved_ip = TRUE]), keys, remote,
            [Finished("save", self.provider, self.name, self.owner_id, "ok", FALSE)
               EXCEPT !.id = self.id])

\* ------------------------------------------------------ the backends drift
\* What the backends do on their own, outside any call of the program.
BackendEvent == Finished("backend", "", "", NoOwner, "", FALSE)

\* An instance is terminated, a container or pod removed, a process exits.
BackendVanish(i) ==
  /\ i \in remote
  /\ remote' = remote \ {i}
  /\ last' = BackendEvent
  /\ UNCHANGED <<desktops, keys, nextId, call>>
  /\ UNCHANGED tunnelVars

\* A cloud instance or a container is stopped or started out of band.  (No
\* code reads the state of a pod or of a QEMU process beyond its existence.)
BackendStatus(i) ==
  /\ i \in remote
  /\ i.provider \in {"ec2", "gce", "docker"}
  /\ remote' = (remote \ {i}) \cup
                 {[i EXCEPT !.status = IF i.status = "RUNNING" THEN "STOPPED"
                                       ELSE "RUNNING"]}
  /\ last' = BackendEvent
  /\ UNCHANGED <<desktops, keys, nextId, call>>
  /\ UNCHANGED tunnelVars

\* A cloud instance's public address changes.
BackendAddr(i, addr) ==
  /\ i \in remote
  /\ i.provider \in {"ec2", "gce"}
  /\ addr # i.addr
  /\ remote' = (remote \ {i}) \cup {[i EXCEPT !.addr = addr]}
  /\ last' = BackendEvent
  /\ UNCHANGED <<desktops, keys, nextId, call>>
  /\ UNCHANGED tunnelVars

\* ------------------------------------------------------- proxy.py: tunnels
\* A command line is the sequence of its pieces; a host name is itself a
\* sequence of pieces, so that one host name can be the beginning of another.
LocalPorts == {"6080", "8000"}
RemotePorts == {"8000"}
SshPorts == {"22"}
SshUsers == {"agentsea"}
SshHosts == {<<"db">>, <<"db", "2">>}
NoSshKey == "None"                         \* ssh_key=None
SshKeys == {NoSshKey, "k1"}
BindAddrs == {"0.0.0.0", "127.0.0.1"}
NoPid == 0                                 \* None

\* The five values that name a tunnel.
TunnelArgs(local_port, remote_port, ssh_port, ssh_user, ssh_host) ==
  [local_port |-> local_port, remote_port |-> remote_port, ssh_port |-> ssh_port,
   ssh_user |-> ssh_user, ssh_host |-> ssh_host]

\* key_filepath = AGENTSEA_KEY_DIR/id_rsa_{generate_short_hash(ssh_key)}
key_filepath(ssh_key) == "id_rsa_" \o ssh_key

\* setup_ssh_proxy: the part of ssh_command from -L on.
ssh_command(local_port, remote_port, ssh_port, ssh_user, ssh_host, ssh_key, bind_addr) ==
  <<"ssh", "-N", "-L", bind_addr, local_port, "localhost", remote_port, "-p", ssh_port>>
  \o (IF ssh_key # NoSshKey THEN <<"-i", key_filepath(ssh_key)>> ELSE <<>>)
  \o <<ssh_user>> \o ssh_host

\* check_ssh_proxy_running: partial_command_pattern
partial_command_pattern(local_port, remote_port, ssh_port, ssh_user, ssh_host) ==
  <<"-L", "127.0.0.1", local_port, "localhost", remote_port, "-p", ssh_port, ssh_user>>
  \o ssh_host

\* partial_command_pattern in cmdline_str
IsSubstring(pat, str) ==
  \E i \in 0..(Len(str) - Len(pat)) : SubSeq(str, i + 1, i + Len(pat)) = pat

\* check_ssh_proxy_running: the pid of the first process (process_iter goes
\* by ascending pid) whose command line contains the pattern, else None.
check_ssh_proxy_running(ps, local_port, remote_port, ssh_port, ssh_user, ssh_host) ==
  LET matching == {p \in ps : IsSubstring(
                     partial_command_pattern(local_port, remote_port, ssh_port,
                                             ssh_user, ssh_host),
                     p.cmdline)}
  IN IF matching = {} THEN NoPid
     ELSE (CHOOSE p \in matching : \A q \in matching : p.pid <= q.pid).pid

\* A running process: its pid, its command line and the tunnel it was started for.
Process(pid, cmdline, args) == [pid |-> pid, cmdline |-> cmdline, args |-> args]

NoTun ==
  [op |-> "none", args |-> TunnelArgs("", "", "", "", <<>>), outcome |-> "",
   pid |-> NoPid, spawned |-> FALSE, running |-> {},
   exited |-> FALSE, stderr |-> "", error |-> ""]

\* setup_ssh_proxy when poll() finds the client gone after the one second it
\* was given, as it would be without the poll: the handle is returned.
setup_ssh_proxy_unpolled(obs, pid, err) ==
  [obs EXCEPT !.outcome = "ok", !.pid = pid, !.spawned = TRUE,
              !.exited = TRUE, !.stderr = err]

\* setup_ssh_proxy when poll() finds the client gone after the one second it
\* was given: communicate() collects what the client wrote to stderr and the
\* exception raised carries it; no process is returned.
setup_ssh_proxy_exited(obs, pid, err) ==
  [obs EXCEPT !.outcome = "failed_to_start", !.spawned = TRUE,
              !.exited = TRUE, !.stderr = err, !.error = err]

\* ensure_ssh_proxy: the pid found by check_ssh_proxy_running, else
\* setup_ssh_proxy spawns the client, which either stays up or exits within
\* the second the caller gives it (then setup raises).  The caller's frame
\* (`wait`) is the caller's to set.
ensure_ssh_proxy(local_port, remote_port, ssh_port, ssh_user, ssh_host, ssh_key, bind_addr) ==
  /\ nextPid <= MaxProcs
  /\ UNCHANGED storeVars
  /\ LET args == TunnelArgs(local_port, remote_port, ssh_port, ssh_user, ssh_host)
         pid == check_ssh_proxy_running(procs, local_port, remote_port, ssh_port,
                                        ssh_user, ssh_host)
         obs == [NoTun EXCEPT !.op = "ensure", !.args = args,
                              !.running = {p.pid : p \in {q \in procs : q.args = args}}]
     IN IF pid # NoPid
        THEN /\ tun' = [obs EXCEPT !.outcome = "ok", !.pid = pid]
             /\ UNCHANGED <<procs, nextPid>>
        ELSE /\ nextPid' = nextPid + 1
             /\ \/ /\ procs' = procs \cup
                         {Process(nextPid,
                                  ssh_command(local_port, remote_port, ssh_port,
                                              ssh_user, ssh_host, ssh_key, bind_addr),
                                  args)}
                   /\ tun' = [obs EXCEPT !.outcome = "ok", !.pid = nextPid,
                                         !.spawned = TRUE]
                \/ /\ procs' = procs
                   /\ \E err \in {"Connection refused"} :
                        tun' = setup_ssh_proxy_exited(obs, nextPid, err)

\* cleanup_proxy as it would be if the process were only looked up and the
\* failure to terminate it logged: the process table stays as it is.
cleanup_proxy_unterminated(pid) ==
  /\ pid \in 1..MaxProcs
  /\ procs' = procs
  /\ tun' = [NoTun EXCEPT !.op = "cleanup", !.pid = pid, !.outcome = "ok",
                          !.running = {p.pid : p \in {q \in procs : q.pid = pid}}]
  /\ UNCHANGED nextPid
  /\ UNCHANGED storeVars

\* cleanup_proxy as it would be if psutil.NoSuchProcess were not caught: a pid
\* with no process raises.
cleanup_proxy_raising(pid) ==
  /\ pid \in 1..MaxProcs
  /\ procs' = {p \in procs : p.pid # pid}
  /\ tun' = [NoTun EXCEPT !.op = "cleanup", !.pid = pid,
                          !.running = {p.pid : p \in {q \in procs : q.pid = pid}},
                          !.outcome = IF \E p \in procs : p.pid = pid
                                      THEN "ok" ELSE "NoSuchProcess"]
  /\ UNCHANGED nextPid
  /\ UNCHANGED storeVars

\* cleanup_proxy(pid): terminates the process when there is one; a pid with no
\* process is logged and nothing is raised (`running` records whether there
\* was one).  The caller's frame (`wait`) is the caller's to set.
cleanup_proxy(pid) ==
  /\ pid \in 1..MaxProcs
  /\ procs' = {p \in procs : p.pid # pid}
  /\ tun' = [NoTun EXCEPT !.op = "cleanup", !.pid = pid, !.outcome = "ok",
                          !.running = {p.pid : p \in {q \in procs : q.pid = pid}}]
  /\ UNCHANGED nextPid
  /\ UNCHANGED storeVars

\* An SSH client exits on its own (connection lost).
ProcessExit(p) ==
  /\ p \in procs
  /\ procs' = procs \ {p}
  /\ tun' = [NoTun EXCEPT !.op = "exit", !.pid = p.pid]
  /\ UNCHANGED <<nextPid, wait, atexit>>
  /\ UNCHANGED storeVars

\* --------------------------- ec2.py / gce.py: _wait_till_ready, step by step
Responses == {"200", "503", "connection_error"}   \* what GET /health comes to

\* No wait in progress.  pid is the local variable pid (NoPid: not yet bound),
\* opened the process the running attempt itself started (NoPid: none).
NoWait ==
  [pc |-> "idle", local_port |-> "", ssh_host |-> <<>>, ssh_key |-> NoSshKey,
   pid |-> NoPid, opened |-> NoPid, response |-> "", ready |-> FALSE]

\* find_open_port(8000, 9000): the first port of the range that is free.
OpenPorts == {"8000"}

\* _wait_till_ready(addr, private_ssh_key=...) of EC2Provider and GCEProvider:
\* find_open_port, ready = False.
WaitBegin(local_port, addr, private_ssh_key) ==
  /\ active \in {"ec2", "gce"}
  /\ wait.pc = "idle"
  /\ wait' = [NoWait EXCEPT !.pc = "sleep", !.local_port = local_port,
                            !.ssh_host = addr, !.ssh_key = private_ssh_key]
  /\ UNCHANGED <<procs, nextPid, tun, atexit>>
  /\ UNCHANGED storeVars

\* time.sleep(3); pid = ensure_ssh_proxy(local_port, remote_port=8000,
\* ssh_host=addr, ssh_key=...) with the defaults ssh_port=22,
\* ssh_user="agentsea", bind_addr="0.0.0.0".  Once the client is spawned
\* setup_ssh_proxy sleeps a second and ensure_ssh_proxy another before pid is
\* returned.  A raise leaves pid as it was and goes to the except clause.
AttemptEnsure ==
  /\ wait.pc \in {"sleep", "end"}
  /\ ~wait.ready
  /\ ensure_ssh_proxy(wait.local_port, "8000", "22", "agentsea", wait.ssh_host,
                      wait.ssh_key, "0.0.0.0")
  /\ UNCHANGED atexit
  /\ wait' = IF tun'.outcome = "ok"
             THEN [wait EXCEPT !.pc = "register", !.pid = tun'.pid,
                               !.opened = IF tun'.spawned THEN tun'.pid ELSE NoPid,
                               !.response = ""]
             ELSE [wait EXCEPT !.pc = "except", !.opened = NoPid,
                               !.response = "failed_to_start"]

\* atexit.register(cleanup_proxy, pid)
AttemptRegister ==
  /\ wait.pc = "register"
  /\ atexit' = atexit \cup {wait.pid}
  /\ wait' = [wait EXCEPT !.pc = "get"]
  /\ UNCHANGED <<procs, nextPid, tun>>
  /\ UNCHANGED storeVars

\* requests.get(.../health): a response (ready only on 200) or an exception.
AttemptGet(response) ==
  /\ wait.pc = "get"
  /\ wait' = [wait EXCEPT !.pc = IF response = "connection_error"
                                 THEN "except" ELSE "cleanup",
                          !.response = response,
                          !.ready = (response = "200")]
  /\ UNCHANGED <<procs, nextPid, tun, atexit>>
  /\ UNCHANGED storeVars

\* cleanup_proxy(pid) at the end of the try body or in the except clause
\* (where an unbound pid raises, which is swallowed); the attempt is over.
\* atexit.unregister(cleanup_proxy) follows it in the try body, and in GCE's
\* except clause too: it drops every registration of cleanup_proxy.
AttemptCleanup ==
  /\ wait.pc \in {"cleanup", "except"}
  /\ IF wait.pid # NoPid
     THEN /\ cleanup_proxy(wait.pid)
          /\ atexit' = IF wait.pc = "cleanup" \/ active = "gce" THEN {} ELSE atexit
     ELSE UNCHANGED <<procs, nextPid, tun, atexit>> /\ UNCHANGED storeVars
  /\ wait' = [wait EXCEPT !.pc = "end"]

\* ready: the loop is left; EC2's wait calls cleanup_proxy(pid) and
\* atexit.unregister(cleanup_proxy) once more; the call returns.
WaitEnd ==
  /\ wait.pc = "end"
  /\ wait.ready
  /\ cleanup_proxy(wait.pid)
  /\ atexit' = IF active = "ec2" THEN {} ELSE atexit
  /\ wait' = NoWait

\* KeyboardInterrupt is no Exception: no clause of the wait catches it.
WaitInterrupt ==
  /\ wait.pc # "idle"
  /\ wait' = NoWait
  /\ UNCHANGED <<procs, nextPid, tun, atexit>>
  /\ UNCHANGED storeVars

\* ------------------------------------------- providers and V1ProviderData
\* A provider object: the attributes its to_data() reads, and whether it was
\* given credentials.  A field a provider type does not have is Absent.
Absent == "absent"
AVAILABLE_REGIONS == {"us-east-1", "eu-west-1"}     \* two of the seven

\* KubeConnectConfig / DockerConnectConfig, and its model_dump_json() text.
ConnectConfig(provider, namespace, api_opts, gke_opts, timeout) ==
  [provider |-> provider, namespace |-> namespace, api_opts |-> api_opts,
   gke_opts |-> gke_opts, timeout |-> timeout]
NoCfg == ConnectConfig(Absent, Absent, FALSE, FALSE, Absent)
model_dump_json(cfg) == <<"json", cfg>>
model_validate_json(text) == text[2]

ProviderObject(type, region, project_id, zone, log_vm, cfg, credentials) ==
  [type |-> type, region |-> region, project_id |-> project_id, zone |-> zone,
   log_vm |-> log_vm, cfg |-> cfg, credentials |-> credentials]
NoProviderObject == ProviderObject("", Absent, Absent, Absent, Absent, NoCfg, FALSE)

\* The providers the constructors build: EC2Provider(region[, credentials]),
\* GCEProvider(project_id, zone, region[, credentials]), DockerProvider(cfg),
\* KubernetesProvider(cfg), which raises for an "api" or "gke" configuration
\* without its options, and QemuProvider(log_vm).
Providers ==
  {ProviderObject("ec2", region, Absent, Absent, Absent, NoCfg, credentials) :
     region \in AVAILABLE_REGIONS \cup {"sa-east-1"}, credentials \in BOOLEAN}
  \cup {ProviderObject("gce", region, project_id, zone, Absent, NoCfg, credentials) :
          region \in {"us-central1"}, project_id \in {"proj-a", "proj-b"},
          zone \in {"us-central1-a", "europe-west1-b"}, credentials \in BOOLEAN}
  \cup {ProviderObject("docker", Absent, Absent, Absent, Absent,
                       ConnectConfig(Absent, Absent, FALSE, FALSE, timeout), FALSE) :
          timeout \in {"None", "30"}}
  \cup {ProviderObject("kube", Absent, Absent, Absent, Absent,
                       ConnectConfig(provider, namespace, provider = "api",
                                     provider = "gke", Absent), FALSE) :
          provider \in {"local", "api", "gke"}, namespace \in {"default", "desks"}}
  \cup {ProviderObject("qemu", Absent, Absent, Absent, log_vm, NoCfg, FALSE) :
          log_vm \in {"True", "False"}}

\* V1ProviderData(type, args): args as the dict's values by key, Absent for a
\* key the dict does not hold; cfg is JSON text.
V1ProviderData(type, region, project_id, zone, log_vm, cfg) ==
  [type |-> type, region |-> region, project_id |-> project_id, zone |-> zone,
   log_vm |-> log_vm, cfg |-> cfg]
NoData == V1ProviderData("", Absent, Absent, Absent, Absent, <<Absent>>)

\* to_data(): the data, and the provider as the call leaves it
\* (KubernetesProvider.to_data sets self.cfg.gke_opts = None before it dumps).
Provider_to_data(p) ==
  CASE p.type = "ec2" ->
         [p |-> p, data |-> V1ProviderData("ec2", p.region, Absent, Absent, Absent,
                                           <<Absent>>)]
    [] p.type = "gce" ->
         [p |-> p, data |-> V1ProviderData("gce", Absent, p.project_id, p.zone, Absent,
                                           <<Absent>>)]
    [] p.type = "docker" ->
         [p |-> p, data |-> V1ProviderData("docker", Absent, Absent, Absent, Absent,
                                           model_dump_json(p.cfg))]
    [] p.type = "kube" ->
         LET cfg == [p.cfg EXCEPT !.gke_opts = FALSE]
         IN [p |-> [p EXCEPT !.cfg = cfg],
             data |-> V1ProviderData("kube", Absent, Absent, Absent, Absent,
                                     model_dump_json(cfg))]
    [] OTHER ->
         [p |-> p, data |-> V1ProviderData("qemu", Absent, Absent, Absent, p.log_vm,
                                           <<Absent>>)]

\* from_data(data): the provider built, or the ValueError raised by
\* EC2Provider.from_data for a region outside AVAILABLE_REGIONS and by
\* KubernetesProvider.__init__ for a configuration without its options
\* (gke_opts is read from the environment only when data.type is "gke").
Provider_from_data(data) ==
  CASE data.type = "ec2" ->
         IF data.region \notin AVAILABLE_REGIONS
         THEN [outcome |-> "value_error", p |-> NoProviderObject]
         ELSE [outcome |-> "ok",
               p |-> ProviderObject("ec2", data.region, Absent, Absent, Absent, NoCfg,
                                    FALSE)]
    [] data.type = "gce" ->
         [outcome |-> "ok",
          p |-> ProviderObject("gce", "us-central1", data.project_id, data.zone, Absent,
                               NoCfg, FALSE)]
    [] data.type = "docker" ->
         [outcome |-> "ok",
          p |-> ProviderObject("docker", Absent, Absent, Absent, Absent,
                               model_validate_json(data.cfg), FALSE)]
    [] data.type = "kube" ->
         LET config == model_validate_json(data.cfg)
         IN IF \/ config.provider = "api" /\ ~config.api_opts
               \/ config.provider = "gke" /\ ~config.gke_opts
            THEN [outcome |-> "value_error", p |-> NoProviderObject]
            ELSE [outcome |-> "ok",
                  p |-> ProviderObject("kube", Absent, Absent, Absent, Absent, config,
                                       FALSE)]
    [] OTHER ->
         [outcome |-> "ok",
          p |-> ProviderObject("qemu", Absent, Absent, Absent, data.log_vm, NoCfg, FALSE)]

\* No provider built yet.
NoProvider ==
  [pc |-> "none", p |-> NoProviderObject, data |-> NoData, outcome |-> "",
   back |-> NoData]

\* p = XProvider(...)
ProviderInit(p) ==
  /\ pd' = [NoProvider EXCEPT !.pc = "built", !.p = p]
  /\ UNCHANGED <<providerVars, secretVars, otherVars>>

\* data = p.to_data()
ProviderToData ==
  /\ pd.pc = "built"
  /\ LET r == Provider_to_data(pd.p)
     IN pd' = [pd EXCEPT !.pc = "data", !.p = r.p, !.data = r.data]
  /\ UNCHANGED <<providerVars, secretVars, otherVars>>

\* q = type(p).from_data(data); q.to_data()
ProviderFromData ==
  /\ pd.pc = "data"
  /\ LET r == Provider_from_data(pd.data)
     IN pd' = [pd EXCEPT !.pc = "back", !.outcome = r.outcome,
                         !.back = IF r.outcome = "ok" THEN Provider_to_data(r.p).data
                                  ELSE NoData]
  /\ UNCHANGED <<providerVars, secretVars, otherVars>>

\* ------------------------------------------------ secrets and their records
\* A string is a tagged tuple: <<"pem", ..>> a private key, <<"pw", ..>> a
\* password, <<"b64", <<"fernet", key, text>>>> the base64 text of the Fernet
\* token made from text under key.  NoValue is None; NoSecret an unset
\* variable or an absent file.
NoSecret == "None"
NoValue == <<"None">>
Secrets == {"s1"}                       \* values ENCRYPTION_KEY is set to
GeneratedSecrets == {"g1", "g2"}        \* values Fernet.generate_key() returns
Plaintexts == {<<"pem", "a">>, <<"pem", "b">>}

\* get_encryption_key as it would be if it looked at the file first.
get_encryption_key_file_first(env, file) ==
  IF file # NoSecret THEN {[key |-> file, file |-> file]}
  ELSE IF env # NoSecret THEN {[key |-> env, file |-> file]}
  ELSE {[key |-> key, file |-> key] : key \in GeneratedSecrets}

\* get_encryption_key(): the key returned and the key file as the call
\* leaves it.  The environment variable when set, else the file when it
\* exists, else a generated key, written to the file.
get_encryption_key(env, file) ==
  IF env # NoSecret THEN {[key |-> env, file |-> file]}
  ELSE IF file # NoSecret THEN {[key |-> file, file |-> file]}
  ELSE {[key |-> key, file |-> key] : key \in GeneratedSecrets}

\* encrypt_private_key / encrypt_password, given the key resolved:
\* base64.b64encode(Fernet(key).encrypt(text.encode())).decode()
encrypt_private_key(key, private_key) == <<"b64", <<"fernet", key, private_key>>>>

\* decrypt_private_key as it would be without base64.b64decode: the text is
\* handed to Fernet(key).decrypt as it is.
decrypt_private_key_undecoded(key, encrypted_private_key) ==
  IF encrypted_private_key[1] # "fernet"
  THEN [outcome |-> "invalid_token", value |-> NoValue]
  ELSE IF encrypted_private_key[2] # key
  THEN [outcome |-> "invalid_token", value |-> NoValue]
  ELSE [outcome |-> "ok", value |-> encrypted_private_key[3]]

\* decrypt_private_key / decrypt_password, given the key resolved:
\* Fernet(key).decrypt(base64.b64decode(text)).decode().  Text that is not the
\* base64 of a token, or a token made under another key, raise.
decrypt_private_key(key, encrypted_private_key) ==
  IF encrypted_private_key[1] # "b64"
  THEN [outcome |-> "invalid_token", value |-> NoValue]
  ELSE LET token == encrypted_private_key[2]
       IN IF token[2] # key
          THEN [outcome |-> "invalid_token", value |-> NoValue]
          ELSE [outcome |-> "ok", value |-> token[3]]

\* db.merge(record): the row of that table and id is replaced.
merge(rows, table, id, secret) ==
  {r \in rows : ~(r.table = table /\ r.id = id)}
    \cup {[table |-> table, id |-> id, secret |-> secret]}

NoObject == [kind |-> "none", id |-> "", secret |-> NoValue, loaded |-> FALSE]
NoCrypt ==
  [op |-> "none", env |-> NoSecret, file |-> NoSecret, key |-> NoSecret,
   input |-> NoValue, outcome |-> "", value |-> NoValue]

\* SSHKeyPair(private_key=...): __post_init__ encrypts the key and saves.
SSHKeyPair_post_init(id, private_key) ==
  /\ \E r \in get_encryption_key(ENCRYPTION_KEY, key_path) :
       LET encrypted == encrypt_private_key(r.key, private_key)
       IN /\ key_path' = r.file
          /\ obj' = [kind |-> "ssh_key", id |-> id, secret |-> encrypted,
                     loaded |-> FALSE]
          /\ records' = merge(records, "ssh_keys", id, encrypted)
          /\ crypt' = [op |-> "encrypt", env |-> ENCRYPTION_KEY, file |-> key_path,
                       key |-> r.key, input |-> private_key, outcome |-> "ok",
                       value |-> encrypted]
  /\ UNCHANGED <<providerVars, pd, otherVars, ENCRYPTION_KEY>>

\* SSHKeyPair.find(...): from_record copies the columns.
SSHKeyPair_from_record(record) ==
  /\ record \in records /\ record.table = "ssh_keys"
  /\ obj' = [kind |-> "ssh_key", id |-> record.id, secret |-> record.secret,
             loaded |-> TRUE]
  /\ UNCHANGED <<providerVars, pd, otherVars, ENCRYPTION_KEY, key_path, records, crypt>>

\* key_pair.save(): to_record copies the attributes.
SSHKeyPair_save ==
  /\ obj.kind = "ssh_key"
  /\ records' = merge(records, "ssh_keys", obj.id, obj.secret)
  /\ UNCHANGED <<providerVars, pd, otherVars, ENCRYPTION_KEY, key_path, obj, crypt>>

\* key_pair.decrypt_private_key(key_pair.private_key)
SSHKeyPair_decrypt_private_key ==
  /\ obj.kind = "ssh_key"
  /\ \E r \in get_encryption_key(ENCRYPTION_KEY, key_path) :
       LET d == decrypt_private_key(r.key, obj.secret)
       IN /\ key_path' = r.file
          /\ crypt' = [op |-> "decrypt", env |-> ENCRYPTION_KEY, file |-> key_path,
                       key |-> r.key, input |-> obj.secret, outcome |-> d.outcome,
                       value |-> d.value]
  /\ UNCHANGED <<providerVars, pd, otherVars, ENCRYPTION_KEY, records, obj>>

\* instance.save() as it would be if to_record copied basic_auth_password.
DesktopInstance_save_copying(self) ==
  /\ records' = merge(records, "v1_desktops", self.id, self.secret)
  /\ UNCHANGED <<key_path, crypt>>

\* instance.save(): to_record encrypts basic_auth_password when there is one.
DesktopInstance_save(self) ==
  IF self.secret = NoValue
  THEN /\ records' = merge(records, "v1_desktops", self.id, NoValue)
       /\ UNCHANGED <<key_path, crypt>>
  ELSE \E r \in get_encryption_key(ENCRYPTION_KEY, key_path) :
         LET encrypted == encrypt_private_key(r.key, self.secret)
         IN /\ key_path' = r.file
            /\ records' = merge(records, "v1_desktops", self.id, encrypted)
            /\ crypt' = [op |-> "encrypt", env |-> ENCRYPTION_KEY, file |-> key_path,
                         key |-> r.key, input |-> self.secret, outcome |-> "ok",
                         value |-> encrypted]

\* DesktopInstance(basic_auth_password=...): the attributes are set, then save().
DesktopInstance_init(id, basic_auth_password) ==
  /\ obj' = [kind |-> "desktop", id |-> id, secret |-> basic_auth_password,
             loaded |-> FALSE]
  /\ DesktopInstance_save(obj')
  /\ UNCHANGED <<providerVars, pd, otherVars, ENCRYPTION_KEY>>

\* DesktopInstance.get/find/load: from_record decrypts the password column
\* when it is set; a raise leaves the caller without the object.
DesktopInstance_from_record(record) ==
  /\ record \in records /\ record.table = "v1_desktops"
  /\ IF record.secret = NoValue
     THEN /\ obj' = [kind |-> "desktop", id |-> record.id, secret |-> NoValue,
                     loaded |-> TRUE]
          /\ UNCHANGED <<key_path, crypt>>
     ELSE \E r \in get_encryption_key(ENCRYPTION_KEY, key_path) :
            LET d == decrypt_private_key(r.key, record.secret)
            IN /\ key_path' = r.file
               /\ crypt' = [op |-> "decrypt", env |-> ENCRYPTION_KEY, file |-> key_path,
                            key |-> r.key, input |-> record.secret,
                            outcome |-> d.outcome, value |-> d.value]
               /\ obj' = IF d.outcome = "ok"
                         THEN [kind |-> "desktop", id |-> record.id, secret |-> d.value,
                               loaded |-> TRUE]
                         ELSE obj
  /\ UNCHANGED <<providerVars, pd, otherVars, ENCRYPTION_KEY, records>>

\* A loaded or a new instance is saved again (desk.save() in start, stop, refresh).
DesktopInstance_resave ==
  /\ obj.kind = "desktop"
  /\ DesktopInstance_save(obj)
  /\ UNCHANGED <<providerVars, pd, otherVars, ENCRYPTION_KEY, obj>>

\* The program is run again with ENCRYPTION_KEY set to another value, or unset.
SetEnv(secret) ==
  /\ secret # ENCRYPTION_KEY
  /\ ENCRYPTION_KEY' = secret
  /\ UNCHANGED <<providerVars, pd, otherVars, key_path, records, obj, crypt>>

\* The key file is removed.
RemoveKeyFile ==
  /\ key_path # NoSecret
  /\ key_path' = NoSecret
  /\ UNCHANGED <<providerVars, pd, otherVars, ENCRYPTION_KEY, records, obj, crypt>>

\* ------------------------------------------------------------ specifications
\* ------------------------------------------- key files (proxy.py, setup_ssh_proxy)
\* A file mode is the set of its permission bits; a file that does not exist
\* has none.  The keys handed to setup_ssh_proxy are "k1" and "k2".
NoFile == [exists |-> FALSE, content |-> "", mode |-> {}]

NoKeyDir ==
  [files |-> [f \in {key_filepath(k) : k \in {"k1", "k2"}} |-> NoFile],
   pc |-> "idle", ssh_key |-> NoSshKey, registered |-> {}]

\* open(key_filepath, "wb"): a file that exists is truncated and keeps its
\* mode; a new one is created with 0o666 less the bits of the process's umask.
setup_ssh_proxy_open(ssh_key, umask) ==
  /\ keydir.pc = "idle"
  /\ LET path == key_filepath(ssh_key)
         f == keydir.files[path]
     IN keydir' =
          [keydir EXCEPT
             !.pc = "opened", !.ssh_key = ssh_key,
             !.files[path] =
               [exists |-> TRUE, content |-> "",
                mode |-> IF f.exists THEN f.mode
                         ELSE {"ur", "uw", "gr", "gw", "or", "ow"} \ umask]]
  /\ UNCHANGED <<providerVars, pd, secretVars, relay, self_region>>

\* f.write(ssh_key.encode()) and the end of the with block: the key is in the file.
setup_ssh_proxy_write ==
  /\ keydir.pc = "opened"
  /\ keydir' = [keydir EXCEPT !.pc = "written",
                              !.files[key_filepath(keydir.ssh_key)].content = keydir.ssh_key]
  /\ UNCHANGED <<providerVars, pd, secretVars, relay, self_region>>

\* os.chmod(key_filepath, 0o600)
setup_ssh_proxy_chmod ==
  /\ keydir.pc = "written"
  /\ keydir' = [keydir EXCEPT !.pc = "chmod",
                              !.files[key_filepath(keydir.ssh_key)].mode = {"ur", "uw"}]
  /\ UNCHANGED <<providerVars, pd, secretVars, relay, self_region>>

\* Popen and the poll a second later: a client that exited has its key file
\* unlinked and setup raises; for one that runs, cleanup_ssh_key is registered.
setup_ssh_proxy_spawn ==
  /\ keydir.pc = "chmod"
  /\ LET path == key_filepath(keydir.ssh_key)
     IN \/ keydir' = [keydir EXCEPT !.pc = "idle", !.ssh_key = NoSshKey,
                                    !.files[path] = NoFile]
        \/ keydir' = [keydir EXCEPT !.pc = "idle", !.ssh_key = NoSshKey,
                                    !.registered = @ \cup {path}]
  /\ UNCHANGED <<providerVars, pd, secretVars, relay, self_region>>

\* Interpreter exit: cleanup_ssh_key removes every registered file that exists.
cleanup_ssh_key ==
  /\ keydir.pc = "idle"
  /\ keydir.registered # {}
  /\ keydir' = [keydir EXCEPT
                  !.registered = {},
                  !.files = [f \in DOMAIN keydir.files |->
                               IF f \in keydir.registered THEN NoFile
                               ELSE keydir.files[f]]]
  /\ UNCHANGED <<providerVars, pd, secretVars, relay, self_region>>

\* --------------------------------------- socket relay (SSHPortForwarding)
\* One connection at a time.  from_client / from_channel count the chunks the
\* local peer and the remote end have written, to_channel / to_client the
\* chunks the relay has passed on; eof is the set of sides that have closed.
NoRelay ==
  [pc |-> "listening", from_client |-> 0, to_channel |-> 0, from_channel |-> 0,
   to_client |-> 0, eof |-> {}]

\* accept_connections: server.accept() and a handle_client thread for the socket.
accept_connections ==
  /\ relay.pc \in {"listening", "closed"}
  /\ relay' = [NoRelay EXCEPT !.pc = "accepted"]
  /\ UNCHANGED <<providerVars, pd, secretVars, keydir, self_region>>

\* The two ends of a connection: the local peer writes to or closes its
\* socket, the remote end writes to or closes the channel once it is open.
Peer(side, event) ==
  /\ relay.pc \notin {"listening", "closed"}
  /\ side = "channel" => relay.pc # "accepted"
  /\ side \notin relay.eof
  /\ \/ /\ event = "send"
        /\ side = "client"
        /\ relay.from_client < MaxChunks
        /\ relay' = [relay EXCEPT !.from_client = @ + 1]
     \/ /\ event = "send"
        /\ side = "channel"
        /\ relay.from_channel < MaxChunks
        /\ relay' = [relay EXCEPT !.from_channel = @ + 1]
     \/ /\ event = "close"
        /\ relay' = [relay EXCEPT !.eof = @ \cup {side}]
  /\ UNCHANGED <<providerVars, pd, secretVars, keydir, self_region>>

\* handle_client, one step of the thread: open_channel (a failure closes the
\* socket), then the loop  data = client_socket.recv(1024); channel.send(data);
\* data = channel.recv(1024); client_socket.send(data).  A recv blocks until
\* its side has a chunk or has closed; empty data ends the loop and both ends
\* are closed, as does a send to a side that has closed (it raises).
handle_client ==
  /\ \/ /\ relay.pc = "accepted"
        /\ \/ relay' = [relay EXCEPT !.pc = "recv_client"]
           \/ relay' = [relay EXCEPT !.pc = "closed"]
     \/ /\ relay.pc = "recv_client"
        /\ IF relay.from_client > relay.to_channel
           THEN relay' = [relay EXCEPT !.pc = "send_channel"]
           ELSE /\ "client" \in relay.eof
                /\ relay' = [relay EXCEPT !.pc = "closed"]
     \/ /\ relay.pc = "send_channel"
        /\ IF "channel" \in relay.eof
           THEN relay' = [relay EXCEPT !.pc = "closed"]
           ELSE relay' = [relay EXCEPT !.pc = "recv_channel", !.to_channel = @ + 1]
     \/ /\ relay.pc = "recv_channel"
        /\ IF relay.from_channel > relay.to_client
           THEN relay' = [relay EXCEPT !.pc = "send_client"]
           ELSE /\ "channel" \in relay.eof
                /\ relay' = [relay EXCEPT !.pc = "closed"]
     \/ /\ relay.pc = "send_client"
        /\ IF "client" \in relay.eof
           THEN relay' = [relay EXCEPT !.pc = "closed"]
           ELSE relay' = [relay EXCEPT !.pc = "recv_client", !.to_client = @ + 1]
  /\ UNCHANGED <<providerVars, pd, secretVars, keydir, self_region>>

Init ==
  /\ desktops = {}
  /\ keys = {}
  /\ remote = {}
  /\ nextId = 1
  /\ call = NoCall
  /\ last = NoLast
  /\ procs = {}
  /\ nextPid = 1
  /\ tun = NoTun
  /\ wait = NoWait
  /\ atexit = {}
  /\ active \in PTypes
  /\ pd = NoProvider
  /\ ENCRYPTION_KEY = NoSecret
  /\ key_path = NoSecret
  /\ records = {}
  /\ obj = NoObject
  /\ crypt = NoCrypt
  /\ keydir = NoKeyDir
  /\ relay = NoRelay
  /\ self_region = "us-east-1"

\* ssh_key_pair=None: every create generates its own key pair.
KeyChoices == {NoKeyName}

Next ==
  \/ \E name \in Names, owner_id \in Owners, ssh_key_pair \in KeyChoices :
       \/ active = "ec2" /\ EC2Provider_create(name, owner_id, ssh_key_pair)
       \/ active = "gce" /\ GCEProvider_create(name, owner_id, ssh_key_pair)
       \/ active = "qemu" /\ QemuProvider_create(name, owner_id, ssh_key_pair)
  \/ \E name \in Names, owner_id \in Owners :
       \/ active = "docker" /\ DockerProvider_create(name, owner_id)
       \/ active = "kube" /\ KubernetesProvider_create(name, owner_id)
       \/ active = "ec2" /\ EC2Provider_start(name, owner_id)
       \/ active = "gce" /\ GCEProvider_start(name, owner_id)
       \/ active = "ec2" /\ EC2Provider_stop(name, owner_id)
       \/ active = "gce" /\ GCEProvider_stop(name, owner_id)
       \/ active = "qemu" /\ QemuProvider_stop(name, owner_id)
       \/ \E op \in {"start", "stop"} :
            Provider_not_implemented(op, active, name, owner_id)
       \/ ProviderDelete(active, name, owner_id)
  \/ WaitSleep
  \/ ProbeNotReady
  \/ ProbeReady
  \/ Interrupt
  \/ \E self \in desktops, force \in BOOLEAN : InstanceDelete(self, force)
  \/ Refresh(active)
  \/ \E i \in remote : BackendVanish(i)
  \/ \E i \in remote : BackendStatus(i)
  \/ \E i \in remote, addr \in Addrs : BackendAddr(i, addr)

Spec == Init /\ [][Next]_vars

\* The calls that make and delete instances, and the backend losing resources:
\* what an instance delete depends on.
DeleteNext ==
  \/ \E name \in Names, owner_id \in Owners, ssh_key_pair \in KeyChoices :
       \/ active = "ec2" /\ EC2Provider_create(name, owner_id, ssh_key_pair)
       \/ active = "gce" /\ GCEProvider_create(name, owner_id, ssh_key_pair)
       \/ active = "qemu" /\ QemuProvider_create(name, owner_id, ssh_key_pair)
  \/ \E name \in Names, owner_id \in Owners :
       \/ active = "docker" /\ DockerProvider_create(name, owner_id)
       \/ active = "kube" /\ KubernetesProvider_create(name, owner_id)
       \/ ProviderDelete(active, name, owner_id)
  \/ WaitSleep
  \/ ProbeNotReady
  \/ ProbeReady
  \/ Interrupt
  \/ \E self \in desktops, force \in BOOLEAN : InstanceDelete(self, force)
  \/ \E i \in remote : BackendVanish(i)

DeleteSpec == Init /\ [][DeleteNext]_vars

TunnelNext ==
  \/ \E local_port \in LocalPorts, remote_port \in RemotePorts, ssh_port \in SshPorts,
        ssh_user \in SshUsers, ssh_host \in SshHosts, ssh_key \in SshKeys,
        bind_addr \in BindAddrs :
       /\ ensure_ssh_proxy(local_port, remote_port, ssh_port, ssh_user, ssh_host,
                           ssh_key, bind_addr)
       /\ UNCHANGED <<wait, atexit>>
  \/ \E pid \in 1..MaxProcs : cleanup_proxy(pid) /\ UNCHANGED <<wait, atexit>>
  \/ \E p \in procs : ProcessExit(p)

TunnelSpec == Init /\ [][TunnelNext]_vars

\* The readiness wait of a cloud VM on the process table, next to the other
\* tunnels of the same process (the ones the wait can find are those bound to
\* 127.0.0.1 without a key file), each opened and registered as
\* Desktop.__init__ does with its default proxy_port=8000:
\* proxy_pid = ensure_ssh_proxy(...); atexit.register(cleanup_proxy, proxy_pid).
WaitNext ==
  \/ \E local_port \in OpenPorts, addr \in SshHosts, private_ssh_key \in SshKeys :
       WaitBegin(local_port, addr, private_ssh_key)
  \/ AttemptEnsure
  \/ AttemptRegister
  \/ \E response \in Responses : AttemptGet(response)
  \/ AttemptCleanup
  \/ WaitEnd
  \/ WaitInterrupt
  \/ \E local_port \in {"8000"}, ssh_host \in SshHosts :
       /\ ensure_ssh_proxy(local_port, "8000", "22", "agentsea", ssh_host,
                           NoSshKey, "127.0.0.1")
       /\ atexit' = IF tun'.outcome = "ok" THEN atexit \cup {tun'.pid} ELSE atexit
       /\ UNCHANGED wait
  \/ \E p \in procs : ProcessExit(p)

WaitSpec == Init /\ [][WaitNext]_vars

\* The VM providers with callers that name key pairs: their own, or one the
\* key store already holds.
KeyNext ==
  \/ \E name \in UserKeyNames, owner_id \in {"local", "alice"} :
       SSHKeyPair_generate_key(name, owner_id)
  \/ \E name \in Names, owner_id \in Owners,
        ssh_key_pair \in {NoKeyName} \cup {k.name : k \in keys} :
       \/ active = "ec2" /\ EC2Provider_create(name, owner_id, ssh_key_pair)
       \/ active = "gce" /\ GCEProvider_create(name, owner_id, ssh_key_pair)
       \/ active = "qemu" /\ QemuProvider_create(name, owner_id, ssh_key_pair)
  \/ \E name \in Names, owner_id \in Owners : ProviderDelete(active, name, owner_id)
  \/ WaitSleep
  \/ ProbeNotReady
  \/ ProbeReady

KeySpec == Init /\ [][KeyNext]_vars

\* refresh() of the cloud VM providers: rows marked reserved_ip, instances
\* that change address or vanish on the backend, lookups that raise.
RefreshNext ==
  \/ \E name \in Names, owner_id \in Owners, ssh_key_pair \in KeyChoices :
       \/ active = "ec2" /\ EC2Provider_create(name, owner_id, ssh_key_pair)
       \/ active = "gce" /\ GCEProvider_create(name, owner_id, ssh_key_pair)
  \/ WaitSleep
  \/ ProbeNotReady
  \/ ProbeReady
  \/ \E self \in desktops : DesktopInstance_save_reserved(self)
  \/ \E i \in remote, addr \in Addrs : BackendAddr(i, addr)
  \/ \E i \in remote : BackendVanish(i)
  \/ Refresh(active)
  \/ \E vm \in desktops : RefreshRecordRaises(active, vm)

RefreshSpec == Init /\ [][RefreshNext]_vars

\* Two processes of one installation creating cloud VMs at the same time.
ConcurrentNext ==
  \/ \E name \in Names, owner_id \in Owners, ssh_key_pair \in KeyChoices :
       \/ active = "ec2" /\ EC2Provider_create(name, owner_id, ssh_key_pair)
       \/ active = "gce" /\ GCEProvider_create(name, owner_id, ssh_key_pair)
  \/ \E name \in Names, owner_id \in Owners : ConcurrentCreate(name, owner_id)
  \/ WaitSleep
  \/ ProbeNotReady
  \/ ProbeReady

ConcurrentSpec == Init /\ [][ConcurrentNext]_vars

\* refresh() of every provider over the rows its creates made, with resources
\* that vanish or stop on the backend.
ReconcileNext ==
  \/ \E name \in Names, owner_id \in Owners, ssh_key_pair \in KeyChoices :
       \/ active = "ec2" /\ EC2Provider_create(name, owner_id, ssh_key_pair)
       \/ active = "gce" /\ GCEProvider_create(name, owner_id, ssh_key_pair)
       \/ active = "qemu" /\ QemuProvider_create(name, owner_id, ssh_key_pair)
  \/ \E name \in Names, owner_id \in Owners :
       \/ active = "docker" /\ DockerProvider_create(name, owner_id)
       \/ active = "kube" /\ KubernetesProvider_create(name, owner_id)
  \/ WaitSleep
  \/ ProbeNotReady
  \/ ProbeReady
  \/ \E i \in remote : BackendVanish(i)
  \/ \E i \in remote : BackendStatus(i)
  \/ Refresh(active)

ReconcileSpec == Init /\ [][ReconcileNext]_vars

\* list() and get() of one provider over a store that holds the rows made
\* through providers of other types.
ListNext ==
  \/ \E name \in Names, owner_id \in Owners :
       \/ active = "ec2" /\ EC2Provider_create(name, owner_id, NoKeyName)
       \/ active = "gce" /\ GCEProvider_create(name, owner_id, NoKeyName)
       \/ active = "qemu" /\ QemuProvider_create(name, owner_id, NoKeyName)
       \/ active = "docker" /\ DockerProvider_create(name, owner_id)
       \/ active = "kube" /\ KubernetesProvider_create(name, owner_id)
       \/ ProviderGet(active, name, owner_id)
  \/ WaitSleep
  \/ ProbeNotReady
  \/ ProbeReady
  \/ \E provider \in PTypes : UseProvider(provider)
  \/ ProviderList(active)

ListSpec == Init /\ [][ListNext]_vars

\* Key pairs and instances with passwords made, saved, loaded and decrypted
\* while the environment variable and the key file come and go.
SecretNext ==
  \/ \E private_key \in Plaintexts : SSHKeyPair_post_init("key-1", private_key)
  \/ \E record \in records : SSHKeyPair_from_record(record)
  \/ SSHKeyPair_save
  \/ SSHKeyPair_decrypt_private_key
  \/ \E basic_auth_password \in {<<"pw", "a">>, NoValue} :
       DesktopInstance_init("desk-1", basic_auth_password)
  \/ \E record \in records : DesktopInstance_from_record(record)
  \/ DesktopInstance_resave
  \/ \E secret \in Secrets \cup {NoSecret} : SetEnv(secret)
  \/ RemoveKeyFile

SecretSpec == Init /\ [][SecretNext]_vars

\* Providers written to V1ProviderData and read back.
DataNext ==
  \/ \E p \in Providers : ProviderInit(p)
  \/ ProviderToData
  \/ ProviderFromData

DataSpec == Init /\ [][DataNext]_vars

\* Key files written by setup_ssh_proxy under the umasks 0o022 and 0o077.
KeyFileNext ==
  \/ \E ssh_key \in {"k1", "k2"}, umask \in {{"gw", "ow"}, {"gr", "gw", "or", "ow"}} :
       setup_ssh_proxy_open(ssh_key, umask)
  \/ setup_ssh_proxy_write
  \/ setup_ssh_proxy_chmod
  \/ setup_ssh_proxy_spawn
  \/ cleanup_ssh_key

KeyFileSpec == Init /\ [][KeyFileNext]_vars

\* start and stop of the cloud VM providers with a delete by another process
\* in between.
RaceNext ==
  \/ \E name \in Names, owner_id \in Owners, ssh_key_pair \in KeyChoices :
       \/ active = "ec2" /\ EC2Provider_create(name, owner_id, ssh_key_pair)
       \/ active = "gce" /\ GCEProvider_create(name, owner_id, ssh_key_pair)
  \/ \E name \in Names, owner_id \in Owners :
       \/ active = "ec2" /\ EC2Provider_start(name, owner_id)
       \/ active = "gce" /\ GCEProvider_start(name, owner_id)
       \/ StopBegin(name, owner_id)
       \/ ConcurrentDelete(name, owner_id)
  \/ StopEnd
  \/ WaitSleep
  \/ ProbeNotReady
  \/ ProbeReady

RaceSpec == Init /\ [][RaceNext]_vars

\* refresh() of cloud VM providers configured for different regions (zones)
\* over one store.
RegionNext ==
  \/ \E name \in Names, owner_id \in Owners, ssh_key_pair \in KeyChoices :
       \/ active = "ec2" /\ EC2Provider_create(name, owner_id, ssh_key_pair)
       \/ active = "gce" /\ GCEProvider_create(name, owner_id, ssh_key_pair)
  \/ WaitSleep
  \/ ProbeNotReady
  \/ ProbeReady
  \/ \E r \in {"us-east-1", "eu-west-1"} : UseRegion(r)
  \/ Refresh(active)

RegionSpec == Init /\ [][RegionNext]_vars

\* The VM providers with callers that name key pairs, and view() of the rows.
ViewNext ==
  \/ KeyNext
  \/ \E self \in desktops : DesktopInstance_view(self)

ViewSpec == Init /\ [][ViewNext]_vars

\* A relayed connection, its two ends and the relaying thread; the thread is
\* scheduled whenever it can take a step (it is a running Python thread), the
\* two ends are under no obligation to write or to close.
RelayNext ==
  \/ accept_connections
  \/ \E side \in {"client", "channel"}, event \in {"send", "close"} : Peer(side, event)
  \/ handle_client

RelaySpec == Init /\ [][RelayNext]_vars /\ WF_vars(handle_client)

\* The readiness wait under the scheduling the code relies on: a sleep that
\* has started returns, a health request that was sent comes back.
LiveSpec ==
  /\ Init
  /\ [][Next]_vars
  /\ WF_vars(WaitSleep)
  /\ WF_vars(ProbeNotReady \/ ProbeReady)

\* ------------------------------------------------------------------ refresh
\* The backend resources a row stands for, as its provider's refresh looks
\* them up: by name; the docker provider lists running containers only.
LiveResources(rem, desktop) ==
  {i \in RemoteByName(rem, desktop.provider, desktop.name) :
     desktop.provider = "docker" => i.status = "RUNNING"}

\* C1: after one refresh() of the EC2 or the GCE provider the store holds
\* exactly the rows it held before minus the rows of the provider's type that
\* had no live backend resource.
C1_RefreshRemovesAllOrphans ==
  (last.op = "refresh" /\ last.provider \in {"ec2", "gce"}) =>
    {r.id : r \in desktops} =
      {r.id : r \in {q \in last.pre :
                       ~(q.provider = last.provider
                         /\ LiveResources(last.pre_remote, q) = {})}}

\* C2: after one refresh() every row of the provider's type that has a live
\* backend resource and no reserved address carries that resource's address
\* and status.
C2_RefreshSyncsAddrAndStatus ==
  last.op = "refresh" =>
    \A r \in desktops :
      (r.provider = last.provider /\ ~r.reserved_ip
       /\ LiveResources(remote, r) # {})
        => \E i \in LiveResources(remote, r) :
             r.addr = i.addr /\ r.status = remote_status(i.status)

\* C3: a refresh() of the EC2 or the GCE provider that directly follows a
\* refresh() of the same provider, with no backend change and no other call in
\* between, leaves the store as it is.
C3_RefreshIdempotent ==
  [][(last.op = "refresh" /\ last'.op = "refresh"
      /\ last'.provider = last.provider /\ last.provider \in {"ec2", "gce"})
       => desktops' = desktops]_vars

\* ----------------------------------------------------------- readiness wait
\* C4: a create or start that is inside its readiness wait leaves it.
C4_WaitTerminates == InWait ~> Idle

\* C5: a create inside its readiness wait ends, and when it ends on a
\* readiness timeout no row of the id it would have saved is in the store.
C5_CreateRaisesOnTimeout ==
  (InWait /\ call.op = "create") ~>
    (Idle /\ last.op = "create"
     /\ (last.outcome = "timeout" => ~\E r \in desktops : r.id = last.id))

\* --------------------------------------------------------------- uniqueness
\* C6: a create called while a row of the same name and owner is in the store
\* fails with a name conflict and has made no backend call.
C6_CreateConflictBeforeBackend ==
  (last.op = "create" /\ last.existed)
    => (last.outcome = "name_exists" /\ ~last.backend_called)

\* C7: no two rows of the store have the same name and the same owner_id.
C7_NameOwnerUnique ==
  \A r1 \in desktops, r2 \in desktops :
    (r1.name = r2.name /\ r1.owner_id = r2.owner_id) => r1.id = r2.id

\* ------------------------------------------------------------------- delete
\* C8: once delete(name, owner_id) of an instance that existed has returned,
\* get(name, owner_id) finds nothing.
C8_GetAfterDeleteNotFound ==
  (last.op = "delete" /\ last.existed /\ last.outcome = "ok")
    => Provider_get(last.provider, desktops, last.name, last.owner_id) = {}

\* C9: an instance delete with force=true returns without raising and leaves
\* no row of that instance's id, whether or not the provider's delete failed.
C9_ForceDeleteRemovesRecord ==
  (last.op = "instance_delete" /\ last.force)
    => (last.outcome = "ok" /\ ~\E r \in desktops : r.id = last.id)

\* A forced instance delete whose provider delete failed has returned.
C9_Witness ==
  /\ last.op = "instance_delete"
  /\ last.force
  /\ last.remote_failed
  /\ last.outcome = "ok"

\* ------------------------------------------------------------------ tunnels
\* C10: an ensure_ssh_proxy call made while a process started for the same
\* (local_port, remote_port, ssh_port, user, host) is running returns the pid
\* of such a process and spawns nothing.
C10_EnsureReusesTunnel ==
  (tun.op = "ensure" /\ tun.running # {})
    => (tun.outcome = "ok" /\ ~tun.spawned /\ tun.pid \in tun.running)

\* C11: when the tunnel-ensure operation returns a process that was already
\* running (it started none), that process was started for exactly the
\* requested local port, remote port, SSH port, user and host.
C11_EnsureReturnsExactTunnel ==
  (tun.op = "ensure" /\ tun.outcome = "ok" /\ ~tun.spawned)
    => \E p \in procs : p.pid = tun.pid /\ p.args = tun.args

\* C12: when an attempt of the readiness wait is over (after HTTP 200, after
\* another status, after a connection error), the tunnel process that the
\* attempt started is no longer running.
C12_AttemptTunnelTerminated ==
  (wait.pc = "end" /\ wait.opened # NoPid)
    => ~\E p \in procs : p.pid = wait.opened

\* An attempt that started a tunnel and ended in a connection error is over.
C12_Witness ==
  /\ wait.pc = "end"
  /\ wait.opened # NoPid
  /\ wait.response = "connection_error"

\* C13: a create that succeeded returned an instance that is in the store,
\* whose requires_proxy is the value fixed for its provider (true for EC2, GCE
\* and Kubernetes, false for QEMU and Docker) and whose addr is not empty.
C13_CreateSetsProxyAndAddr ==
  (last.op = "create" /\ last.outcome = "ok")
    => \E d \in desktops :
         /\ d.id = last.id
         /\ d.provider = last.provider
         /\ d.requires_proxy = (last.provider \in {"ec2", "gce", "kube"})
         /\ d.addr # NoAddr

\* A create of a provider that needs no proxy has succeeded.
C13_Witness ==
  /\ last.op = "create"
  /\ last.outcome = "ok"
  /\ \E d \in desktops : d.id = last.id /\ ~d.requires_proxy

\* C14: in every state, every row with requires_proxy=true has a
\* key_pair_name that names a key pair present in the key store.
C14_ProxyRowsHaveTheirKey ==
  \A d \in desktops :
    d.requires_proxy => \E k \in keys : k.name = d.key_pair_name

\* C15: on QEMU, a create(name) given no key pair has, when it returns, put a
\* key pair tagged generated_for=name in the key store and named it in the
\* row; and a delete(name) that returns leaves no row of that name and none of
\* the key pairs those rows named.
C15_QemuGeneratedKeyLifecycle ==
  /\ []((last.op = "create" /\ last.provider = "qemu" /\ last.outcome = "ok")
          => \E d \in desktops, k \in keys :
               /\ d.id = last.id
               /\ k.name = d.key_pair_name
               /\ k.generated_for = d.name)
  /\ [][(/\ Idle
         /\ last'.op = "delete" /\ last'.provider = "qemu"
         /\ last'.outcome = "ok" /\ last'.owner_id = NoOwner)
          => /\ get(desktops, last'.name, NoOwner) # {}
             /\ \A d \in get(desktops, last'.name, NoOwner) :
                  /\ ~\E e \in desktops' : e.id = d.id
                  /\ ~\E k \in keys' : k.name = d.key_pair_name]_vars

\* A QEMU delete(name) has returned after removing the row of that name.
C15_Witness ==
  /\ last.op = "delete" /\ last.provider = "qemu" /\ last.outcome = "ok"
  /\ last.owner_id = NoOwner /\ last.existed
  /\ get(desktops, last.name, NoOwner) = {}

\* C16: no delete removes a key pair that a caller supplied to a create: a
\* key pair that leaves the key store is not the key pair of a row for
\* which it was not generated.
C16_DeleteKeepsSuppliedKeys ==
  [][\A k \in keys \ keys' :
       ~\E d \in desktops : d.key_pair_name = k.name /\ k.generated_for # d.name]_vars

\* C17: a refresh() leaves the addr of every row whose reserved_ip is true as
\* it was, whatever address the backend reports for the instance.
C17_RefreshKeepsReservedAddr ==
  last.op = "refresh" =>
    \A d \in last.pre :
      d.reserved_ip => \A e \in desktops : e.id = d.id => e.addr = d.addr

\* C18: a refresh() in which reconciling one row failed has still reconciled
\* every other row of the provider's type (a row whose instance is gone has
\* been removed) and has not failed as a whole.
C18_RefreshSurvivesBadRecord ==
  (last.op = "refresh" /\ last.id # 0)
    => /\ last.outcome = "ok"
       /\ \A q \in last.pre :
            (q.id # last.id /\ q.provider = last.provider
             /\ LiveResources(last.pre_remote, q) = {})
              => q \notin desktops

\* C19: a refresh() makes no backend resource: every resource the backend
\* holds after it was there before it, whatever rows the store held.
C19_RefreshCreatesNoResource ==
  last.op = "refresh" => remote \subseteq last.pre_remote

\* A refresh() has run over a row of its type that had no backend resource.
C19_Witness ==
  /\ last.op = "refresh"
  /\ last.outcome = "ok"
  /\ \E q \in last.pre :
       q.provider = last.provider /\ LiveResources(last.pre_remote, q) = {}

\* C21: of two create calls for the same name and owner that run at the same
\* time at most one succeeds: when a create returns its instance, the store
\* holds no row of that name and owner saved by a create that reached the
\* backend after it did and returned before it.
C21_ConcurrentCreatesOneWins ==
  [][(/\ call.op = "create" /\ call.pc = "probe"
      /\ call'.pc = "idle"
      /\ last'.op = "create" /\ last'.outcome = "ok" /\ last'.id = call.rec.id)
       => ~\E d \in desktops : /\ d.name = call.rec.name
                               /\ d.owner_id = call.rec.owner_id
                               /\ d.id > call.rec.id]_vars

\* C22: a tunnel process that has been spawned is registered for termination
\* at process exit however the setup around the spawn ended: once no setup is
\* under way, every tunnel process that runs is registered.
C22_SpawnedTunnelRegistered ==
  wait.pc = "idle" => \A p \in procs : p.pid \in atexit

\* C23: when a create was interrupted in its readiness wait, after the backend
\* resource had been created, the delete of the same name that follows it
\* leaves no backend resource of that name.
C23_DeleteAfterInterruptedCreate ==
  [][(/\ last.op = "create" /\ last.outcome = "interrupted"
      /\ RemoteByName(remote, last.provider, last.name) # {}
      /\ last'.op = "delete"
      /\ last'.provider = last.provider
      /\ last'.name = last.name
      /\ last'.owner_id = last.owner_id)
       => RemoteByName(remote', last.provider, last.name) = {}]_vars

\* C24: when start(name) of the EC2 or the GCE provider returns, the record's
\* machine is running, the readiness probe passed against the address that
\* start resolved and the machine still has, and the stored record has status
\* running and that address.
C24_StartReturnsRunning ==
  [][(call.op = "start" /\ last'.op = "start" /\ last'.outcome = "ok")
       => \E i \in remote', d \in desktops' :
            /\ i.rid = d.id
            /\ d.id = last'.id
            /\ i.status = "RUNNING"
            /\ i.addr = call.rec.addr
            /\ d.status = "running"
            /\ d.addr = i.addr]_vars

\* C25: a start or a stop of the QEMU or the Docker provider never does
\* anything but raise the error that says the operation is not supported.
C25_LocalStartStopNotSupported ==
  (last.op \in {"start", "stop"} /\ last.provider \in {"qemu", "docker"})
    => last.outcome = "not_implemented"

\* C26: list() of a provider returns exactly the rows of the store whose
\* provider type is the provider's own, and get(name, owner_id) returns no row
\* of another provider's type.
C26_ListAndGetOfOwnType ==
  /\ last.op = "list" => last.returned = {r \in desktops : r.provider = last.provider}
  /\ last.op = "get" => \A r \in last.returned : r.provider = last.provider

\* C27: from_data(to_data(p)) succeeds for every provider p that was built,
\* and the to_data() of the provider it yields equals to_data(p).
C27_ProviderDataRoundTrip ==
  pd.pc = "back" => (pd.outcome = "ok" /\ pd.back = pd.data)

C30_StoredSecretsAreCiphertext ==
  \A r \in records :
    /\ r.table = "ssh_keys" => r.secret[1] = "b64"
    /\ r.table = "v1_desktops" => r.secret[1] \in {"b64", "None"}
    /\ r.secret[1] = "b64" => r.secret[2][1] = "fernet"

\* An instance that was loaded from the store, its password decrypted, has
\* been saved again.
C30_Witness ==
  /\ obj.kind = "desktop" /\ obj.loaded
  /\ obj.secret # NoValue
  /\ crypt.op = "encrypt" /\ crypt.input = obj.secret
  /\ \E r \in records : r.table = "v1_desktops" /\ r.id = obj.id /\ r.secret = crypt.value

\* C31: when the SSH client that ensure_ssh_proxy spawned has exited by the
\* end of the second setup_ssh_proxy gives it, the call raises an error whose
\* message carries what the client wrote to stderr, and returns no pid.
C31_EarlyExitRaises ==
  (tun.op = "ensure" /\ tun.exited)
    => /\ tun.outcome = "failed_to_start"
       /\ tun.pid = NoPid
       /\ tun.error = tun.stderr
       /\ tun.error # ""

C31_Witness ==
  /\ tun.op = "ensure"
  /\ tun.spawned
  /\ tun.exited
  /\ tun.stderr = "Connection refused"

\* C32: whenever a key file written by setup_ssh_proxy holds private-key
\* material, its mode grants access to the owner only (no group or other bit).
C32_KeyFileOwnerOnly ==
  \A f \in DOMAIN keydir.files :
    (keydir.files[f].exists /\ keydir.files[f].content # "")
      => keydir.files[f].mode \subseteq {"ur", "uw", "ux"}

\* C33: cleanup_proxy raises nothing, also for a pid whose process has exited,
\* and a second cleanup_proxy of the same pid right after the first changes
\* nothing: the process table and the pids handed out stay as the first call
\* left them.
C33_CleanupIdempotent ==
  [][(tun'.op = "cleanup")
       => /\ tun'.outcome = "ok"
          /\ \A p \in procs' : p.pid # tun'.pid
          /\ (tun.op = "cleanup" /\ tun.pid = tun'.pid)
               => (procs' = procs /\ nextPid' = nextPid /\ atexit' = atexit)]_vars

C33_Witness ==
  /\ tun.op = "cleanup"
  /\ tun.running = {}
  /\ tun.pid < nextPid
  /\ tun.outcome = "ok"
  /\ procs # {}

\* C34: on a relayed connection every chunk that arrives from the local
\* socket is eventually sent to the SSH channel and every chunk that arrives
\* from the channel is eventually sent to the local socket, whichever side
\* writes first (or the connection is closed).
C34_RelayForwardsBothWays ==
  \A k \in 1..MaxChunks :
    /\ (relay.from_client >= k) ~> (relay.to_channel >= k \/ relay.pc = "closed")
    /\ (relay.from_channel >= k) ~> (relay.to_client >= k \/ relay.pc = "closed")

\* C35: a row that a delete removed while a start or stop of another process
\* held a copy of it (loaded before the delete) is not put back into the
\* store by that start or stop.
C35_DeletedRowNotReinserted ==
  [][(~Idle /\ last.op = "delete")
       => \A d \in last.pre :
            (\A e \in desktops : e.id # d.id) => (\A e \in desktops' : e.id # d.id)]_vars

\* C36: refresh() of a provider configured for one region (zone, namespace)
\* removes no row whose machine was made by a provider of the same type in
\* another region and still exists there.
C36_RefreshKeepsOtherRegions ==
  [][(last'.op = "refresh")
       => \A d \in desktops :
            (\E i \in remote : /\ i.rid = d.id
                               /\ i.provider = d.provider
                               /\ i.provider = last'.provider
                               /\ i.region # self_region)
              => \E e \in desktops' : e.id = d.id]_vars

\* C37: a pid registered with atexit for cleanup_proxy stays registered for as
\* long as its process runs: no step, and no end of a readiness probe in
\* particular, takes a running tunnel out of the exit-time cleanup.
C37_RegistrationOutlivesProbe ==
  [][\A pid \in atexit :
       (\E p \in procs' : p.pid = pid) => pid \in atexit']_vars

\* C38: when a create that generated its own key pair ends without having
\* saved its row (it failed, or was interrupted in its readiness wait), the
\* key store holds no key pair of that create tagged generated_for its name.
C38_FailedCreateLeavesNoKey ==
  [][(call.op = "create" /\ call'.pc = "idle" /\ last'.outcome # "ok")
       => ~\E k \in keys' : /\ k.name = call.rec.key_pair_name
                            /\ k.generated_for = call.rec.name]_vars

\* C39: the key pair whose private key view() hands to the tunnel belongs to
\* the owner of the instance (owner_id, or "local" when the row has none).
C39_TunnelKeyOfOwner ==
  (last.op = "view" /\ last.outcome = "ok")
    => \A k \in last.returned : k.owner_id = OwnerOrLocal(last.owner_id)

\* C40: to_data() leaves the provider as it was: its connection configuration
\* after the call is the one it had before the call.
C40_ToDataReadOnly ==
  [][(pd.pc = "built" /\ pd'.pc = "data") => pd'.p.cfg = pd.p.cfg]_vars

=============================================================================
